---- MODULE Spec2Model ----
(***************************************************************************)
(* A model of one Ekehi Network node: the Blockchain object                *)
(* (src/blockchain.js, the class starting at line 367), its SyncManager    *)
(* (src/sync-manager.js, the class starting at line 332) and the HTTP      *)
(* handlers of src/index.js that change the chain or the mempool.          *)
(*                                                                         *)
(* JavaScript runs each handler without interruption up to its next        *)
(* await that yields, so one action models a handler from one await to     *)
(* the next.  Amounts are counted in thousandths of a token so that        *)
(* 0.001 (the minimum fee) is 1 and 12.5 (the mining reward) is 12500.     *)
(*                                                                         *)
(* SHA-256 is abstracted by a small arithmetic hash whose result is a      *)
(* string of HashLen digits in base HashBase; the genesis sentinel '0' is  *)
(* the one-digit string <<0>>.  The hash depends on every input the code   *)
(* feeds to sha256 and, 37 being prime to HashBase, takes every value as   *)
(* the nonce varies, so a nonce search terminates whenever difficulty is   *)
(* at most HashLen.                                                        *)
(***************************************************************************)
EXTENDS Integers, Sequences, FiniteSets, TLC

(* ------------------------------ bounds -------------------------------- *)
HashBase == 2
HashLen == 6
MaxChainLen == 3
MaxPending == 1
MaxUuid == 1
MaxTime == 35000
StartTime == 5000
TickStep == MaxTime - StartTime
SyncMaxTime == 10000
NumSyncCallers == 2
NumMineRuns == 2
PayMaxPending == 2
PayMaxUuid == 3
PayAmount == 60000
MaxPeers == 5
MaxTimers == 13
NumSavers == 2
MaxBoots == 1
BlockMaxPending == 11
BlockMaxUuid == 13
AdjustMaxTime == 30000
AdjustMaxUuid == 2
NumStarts == 2
MaxFailures == 6
NumSweeps == 2

(* ------------------------- program constants -------------------------- *)
InitialDifficulty == 4
miningReward == 12500
maxTransactionsPerBlock == 10
targetBlockTime == 10000
minTransactionFee == 1
syncCooldown == 5000
faucetAmount == 100000
maxPeers == 20
maxUnhealthyPeers == 10

(* ------------------------------ values -------------------------------- *)
Pow(b, e) == b ^ e

HashSpace == Pow(HashBase, HashLen)

Min(a, b) == IF a < b THEN a ELSE b
Max(a, b) == IF a > b THEN a ELSE b

SeqToSet(s) == {s[k] : k \in 1..Len(s)}

ValidAddresses == {"EKH_A", "EKH_B", "EKH_M"}
ReservedSenders == {"00", "FAUCET", "ECOSYSTEM"}
minerAddress == "EKH_M"

AddrCode(a) ==
  CASE a = "EKH_A" -> 1
    [] a = "EKH_B" -> 2
    [] a = "EKH_M" -> 3
    [] a = "00" -> 4
    [] a = "FAUCET" -> 5
    [] a = "ECOSYSTEM" -> 6
    [] OTHER -> 7

\* A transaction object.  NullTx stands for a JSON null inside an array of
\* transactions: reading a property of it raises a TypeError.
Tx(id, sender, recipient, amount, fee) ==
  [transactionId |-> id, sender |-> sender, recipient |-> recipient,
   amount |-> amount, fee |-> fee]

NullTx == Tx(0, "null", "null", 0, 0)

\* totalFees of a block that carries no totalFees field (undefined)
NoFees == -1

(* ----------------------------- the hash ------------------------------- *)
\* The n digits of v, most significant first
DigitsOf(v, n) == [k \in 1..n |-> (v \div Pow(HashBase, n - k)) % HashBase]

\* The number a digit string denotes behind a leading 1, so that strings of
\* different lengths differ
StrVal(h) ==
  LET val[k \in 0..Len(h)] == IF k = 0 THEN 1 ELSE val[k - 1] * HashBase + h[k]
  IN val[Len(h)]

TxDigest(tx) ==
  tx.transactionId * 13 + tx.amount + tx.fee * 3
    + AddrCode(tx.sender) * 5 + AddrCode(tx.recipient) * 11

TxsDigest(txs) ==
  LET dig[k \in 0..Len(txs)] ==
        IF k = 0 THEN 0 ELSE (dig[k - 1] * 3 + TxDigest(txs[k]) + 1) % HashSpace
  IN dig[Len(txs)]

\* JSON.stringify(currentBlockData) of {transactions, index}
DataDigest(data) == TxsDigest(data.transactions) * 7 + data.index * 5

hashBlock(previousBlockHash, currentBlockData, nonce) ==
  DigitsOf((StrVal(previousBlockHash) * 31 + nonce * 37 + DataDigest(currentBlockData))
             % HashSpace, HashLen)

\* hash.substring(0, d) === '0'.repeat(d)
HasLeadingZeros(hash, d) ==
  /\ d <= Len(hash)
  /\ \A k \in 1..d : hash[k] = 0

\* Whether the loop of proofOfWork stops at this nonce
NonceFound(previousBlockHash, currentBlockData, d, nonce) ==
  HasLeadingZeros(hashBlock(previousBlockHash, currentBlockData, nonce), d)

\* The search of proofOfWork ends only when some hash has d leading zeros.
PowTerminates(d) == d <= HashLen

\* The first nonce, counting up from 0, whose hash has d leading zeros
proofOfWork(previousBlockHash, currentBlockData, d) ==
  CHOOSE nonce \in 0..(HashSpace - 1) :
    /\ NonceFound(previousBlockHash, currentBlockData, d, nonce)
    /\ \A m \in 0..(nonce - 1) : ~NonceFound(previousBlockHash, currentBlockData, d, m)

(* ----------------------------- blocks --------------------------------- *)
Block(index, timestamp, transactions, nonce, hash, previousBlockHash, d, totalFees) ==
  [index |-> index, timestamp |-> timestamp, transactions |-> transactions,
   nonce |-> nonce, hash |-> hash, previousBlockHash |-> previousBlockHash,
   difficulty |-> d, totalFees |-> totalFees]

GenesisHash == <<0>>

GenesisBlock(index, timestamp, d) ==
  Block(index, timestamp, <<>>, 100, GenesisHash, GenesisHash, d, NoFees)

SumFees(txs) ==
  LET total[k \in 0..Len(txs)] == IF k = 0 THEN 0 ELSE total[k - 1] + txs[k].fee
  IN total[Len(txs)]

getLastBlock(c) == c[Len(c)]

\* All transactionIds confirmed on a chain, as a sequence in chain order.
RECURSIVE ChainTxs(_)
ChainTxs(c) ==
  IF c = <<>> THEN <<>>
  ELSE ChainTxs(SubSeq(c, 1, Len(c) - 1)) \o c[Len(c)].transactions

(* --------------------------- validation ------------------------------- *)
isValidAddress(address) == address = "00" \/ address \in ValidAddresses

\* getAddressData(address).addressBalance over chain c
RECURSIVE BalanceOver(_, _)
BalanceOver(txs, address) ==
  IF txs = <<>> THEN 0
  ELSE LET t == txs[Len(txs)]
           rest == BalanceOver(SubSeq(txs, 1, Len(txs) - 1), address)
       IN IF t.recipient = address THEN rest + t.amount
          ELSE IF t.sender = address THEN rest - t.amount - t.fee
          ELSE rest

addressBalance(c, address) == BalanceOver(ChainTxs(c), address)

\* A validation that does not read the sender's balance: C19 must not
\* survive it
isValidTransactionNoBalance(c, amount, sender, recipient, fee) ==
  IF amount <= 0 THEN "false"
  ELSE IF sender = recipient THEN "false"
  ELSE IF sender = "" \/ recipient = "" THEN "false"
  ELSE IF ~isValidAddress(sender) /\ sender \notin ReservedSenders THEN "false"
  ELSE IF ~isValidAddress(recipient) THEN "false"
  ELSE IF sender \in ReservedSenders THEN "true"
  ELSE IF fee < minTransactionFee THEN "throw"
  ELSE "true"

\* "true", "false", or "throw" (minimum fee or insufficient balance).  The
\* balance is read from the node's own chain c.
isValidTransaction(c, amount, sender, recipient, fee) ==
  IF amount <= 0 THEN "false"
  ELSE IF sender = recipient THEN "false"
  ELSE IF sender = "" \/ recipient = "" THEN "false"
  ELSE IF ~isValidAddress(sender) /\ sender \notin ReservedSenders THEN "false"
  ELSE IF ~isValidAddress(recipient) THEN "false"
  ELSE IF sender \in ReservedSenders THEN "true"
  ELSE IF fee < minTransactionFee THEN "throw"
  ELSE IF addressBalance(c, sender) < amount + fee THEN "throw"
  ELSE "true"

RECURSIVE ValidateTxsFrom(_, _, _, _, _)
ValidateTxsFrom(c, block, k, seen, fees) ==
  IF k > Len(block.transactions)
  THEN IF block.totalFees # NoFees /\ block.totalFees # fees THEN "false" ELSE "true"
  ELSE LET tx == block.transactions[k]
       IN IF tx = NullTx THEN "throw"
          ELSE IF tx.transactionId \in seen THEN "false"
          ELSE LET v == isValidTransaction(c, tx.amount, tx.sender, tx.recipient, tx.fee)
               IN IF v # "true" THEN v
                  ELSE ValidateTxsFrom(c, block, k + 1, seen \cup {tx.transactionId},
                                       fees + tx.fee)

validateBlockTransactions(c, block) == ValidateTxsFrom(c, block, 1, {}, 0)

isValidGenesisBlock(block) ==
  /\ block.nonce = 100
  /\ block.previousBlockHash = GenesisHash
  /\ block.hash = GenesisHash
  /\ block.transactions = <<>>
  /\ (block.index = 1 \/ block.index = 0)

isValidBlockStructure(block) ==
  /\ block.index \in Int
  /\ block.timestamp \in Int
  /\ block.nonce \in Int
  /\ DOMAIN block.transactions = 1..Len(block.transactions)

\* The recomputation of chainIsValid for the block at position i (1-based)
RecomputedHash(blockchain, i) ==
  hashBlock(blockchain[i - 1].hash,
            [transactions |-> blockchain[i].transactions, index |-> blockchain[i].index],
            blockchain[i].nonce)

RECURSIVE ChainValidFrom(_, _, _, _)
ChainValidFrom(c, d, blockchain, i) ==
  IF i > Len(blockchain) THEN "true"
  ELSE LET currentBlock == blockchain[i]
           prevBlock == blockchain[i - 1]
           blockHash == RecomputedHash(blockchain, i)
           bd == IF currentBlock.difficulty # 0 THEN currentBlock.difficulty ELSE d
       IN IF ~isValidBlockStructure(currentBlock) THEN "false"
          ELSE IF currentBlock.previousBlockHash # prevBlock.hash THEN "false"
          ELSE IF blockHash # currentBlock.hash THEN "false"
          ELSE IF ~HasLeadingZeros(blockHash, bd) THEN "false"
          ELSE LET v == validateBlockTransactions(c, currentBlock)
               IN IF v # "true" THEN v
                  ELSE ChainValidFrom(c, d, blockchain, i + 1)

\* chainIsValid of the node whose chain is c and difficulty d: "true",
\* "false", or "throw" when isValidTransaction raises.
chainIsValid(c, d, blockchain) ==
  IF blockchain = <<>> THEN "false"
  ELSE IF ~isValidGenesisBlock(blockchain[1]) THEN "false"
  ELSE ChainValidFrom(c, d, blockchain, 2)

calculateTotalWork(c) ==
  LET RECURSIVE Work(_)
      Work(k) == IF k = 0 THEN 0
                 ELSE Work(k - 1) + Pow(2, IF c[k].difficulty # 0 THEN c[k].difficulty ELSE 1)
  IN Work(Len(c))

validateBlockchainStructure(c) ==
  IF c = <<>> THEN FALSE
  ELSE IF c[1].previousBlockHash # GenesisHash THEN FALSE
  ELSE IF c[1].hash = <<>> \/ c[1].timestamp = 0 THEN FALSE
  ELSE IF Len(c) = 1 THEN TRUE
  ELSE \A i \in 2..Len(c) :
         /\ c[i].index = c[i - 1].index + 1
         /\ c[i].previousBlockHash = c[i - 1].hash
         /\ c[i].hash # <<>>
         /\ c[i].timestamp # 0

\* The comparator of selectBestBlockchain: a sorts strictly before b
SortsBefore(a, b) ==
  IF Len(a.chain) # Len(b.chain) THEN Len(a.chain) > Len(b.chain)
  ELSE IF a.difficulty # b.difficulty THEN a.difficulty > b.difficulty
  ELSE calculateTotalWork(a.chain) > calculateTotalWork(b.chain)

\* peerData.sort(...)[0] for a stable sort: the first entry that no other
\* entry sorts strictly before.
selectBestBlockchain(peerData) ==
  LET best == CHOOSE i \in 1..Len(peerData) :
                /\ \A j \in 1..Len(peerData) : ~SortsBefore(peerData[j], peerData[i])
                /\ \A j \in 1..(i - 1) :
                     \E m \in 1..Len(peerData) : SortsBefore(peerData[m], peerData[j])
  IN peerData[best]

RECURSIVE MergeFrom(_, _, _, _)
MergeFrom(allPending, confirmed, k, acc) ==
  IF k > Len(allPending) THEN acc
  ELSE LET tx == allPending[k]
       IN IF tx.transactionId # 0
             /\ tx.transactionId \notin confirmed
             /\ tx.transactionId \notin {acc[m].transactionId : m \in 1..Len(acc)}
          THEN MergeFrom(allPending, confirmed, k + 1, Append(acc, tx))
          ELSE MergeFrom(allPending, confirmed, k + 1, acc)

\* mergePendingTransactions against the (already replaced) chain c.  A null
\* entry makes tx.transactionId raise a TypeError.
mergePendingTransactions(c, remotePending, localPending) ==
  LET allPending == remotePending \o localPending
      confirmed == {t.transactionId : t \in SeqToSet(ChainTxs(c))}
  IN IF NullTx \in SeqToSet(allPending) \/ NullTx \in SeqToSet(ChainTxs(c))
     THEN [threw |-> TRUE, value |-> <<>>]
     ELSE [threw |-> FALSE, value |-> MergeFrom(allPending, confirmed, 1, <<>>)]

(* ------------------- what peers and clients can send ------------------ *)
\* A block mined by a node running this code on top of prev
MineOn(prev, txs, index, d, timestamp) ==
  LET data == [transactions |-> txs, index |-> index]
      nonce == proofOfWork(prev.hash, data, d)
  IN Block(index, timestamp, txs, nonce, hashBlock(prev.hash, data, nonce),
           prev.hash, d, SumFees(txs))

BogusHash == [k \in 1..HashLen |-> HashBase - 1]

TxF1 == Tx(1, "FAUCET", "EKH_A", faucetAmount, minTransactionFee)
TxP2 == Tx(2, "EKH_A", "EKH_B", 10000, minTransactionFee)
TxF3 == Tx(3, "FAUCET", "EKH_B", faucetAmount, minTransactionFee)

ChainG == <<GenesisBlock(1, StartTime, InitialDifficulty)>>
\* one faucet block on genesis
ChainH2 == Append(ChainG, MineOn(ChainG[1], <<TxF1>>, 2, InitialDifficulty, StartTime))
\* a payment by EKH_A, funded by the faucet block before it
ChainH3 == Append(ChainH2, MineOn(ChainH2[2], <<TxP2>>, 3, InitialDifficulty, StartTime))
\* a second faucet block
ChainF3 == Append(ChainH2, MineOn(ChainH2[2], <<TxF3>>, 3, InitialDifficulty, StartTime))
\* linked and numbered like ChainF3, but the last hash is not the recomputed one
ChainBad3 == Append(ChainH2, [ChainF3[3] EXCEPT !.hash = BogusHash])
\* a chain whose genesis carries index 0
ChainZ2 ==
  LET g == GenesisBlock(0, StartTime, InitialDifficulty)
  IN <<g, MineOn(g, <<TxF3>>, 1, InitialDifficulty, StartTime)>>
\* a chain whose second block carries index 5
ChainGap2 == Append(ChainG, MineOn(ChainG[1], <<TxF3>>, 5, InitialDifficulty, StartTime))

Response(c, pending, d) == [chain |-> c, pendingTransactions |-> pending, difficulty |-> d]

\* The replies of GET /blockchain the model's peers can give
Responses ==
  { Response(ChainH2, <<TxP2>>, InitialDifficulty),
    Response(ChainH3, <<>>, InitialDifficulty),
    Response(ChainF3, <<NullTx>>, InitialDifficulty + 1),
    Response(ChainF3, <<TxP2>>, InitialDifficulty + 1),
    Response(ChainBad3, <<>>, InitialDifficulty),
    Response(ChainZ2, <<TxF3>>, 0),
    Response(ChainGap2, <<>>, InitialDifficulty) }

NoResponse == Response(<<>>, <<>>, 0)

\* Replies with a valid chain, whose difficulty field is what the peer chose
\* to declare
DeclaredResponses ==
  {Response(ChainH2, <<>>, d) : d \in {0 - 1, 1, InitialDifficulty + 1}}

\* A block that links to tip and carries the next index, with a hash that
\* was never computed
ForgedOn(tip, timestamp) ==
  Block(tip.index + 1, timestamp, <<TxF1>>, 0, BogusHash, tip.hash, InitialDifficulty, NoFees)

\* The blocks a peer may POST to /receive-new-block
InboundBlocks(tip, timestamp) ==
  { ChainH2[2], ChainH3[3], ChainF3[3], ChainZ2[2], ChainGap2[2], ForgedOn(tip, timestamp) }

\* The bodies a client or peer may POST to /transaction
RawTransactions == {TxF1}
\* a body of POST /transaction that carries no transactionId
TxNoId == Tx(0, "EKH_A", "EKH_B", 10000, minTransactionFee)

currentNodeUrl == "http://n1"
PeerUrls == {"http://n2", "http://n3"}
\* URLs that contain 'localhost' or '127.0.0.1'
LoopbackUrls == {"http://localhost:3001", "http://127.0.0.1:3002"}
\* The URLs a seed may list in its reply to GET /api/network/peers
HarvestedUrls == PeerUrls \cup {"http://n4", "http://localhost:3001", currentNodeUrl}
\* maxPeers + 1 URLs of other nodes
Crowd ==
  <<"http://p01", "http://p02", "http://p03", "http://p04", "http://p05",
     "http://p06", "http://p07", "http://p08", "http://p09", "http://p10",
     "http://p11", "http://p12", "http://p13", "http://p14", "http://p15",
     "http://p16", "http://p17", "http://p18", "http://p19", "http://p20",
     "http://p21">>
\* The lists a peer may POST to /register-nodes-bulk
BulkLists ==
  { <<"http://n2", "http://n3">>,
    <<"http://n3", "http://n3", currentNodeUrl, "http://127.0.0.1:3002">>,
    Crowd }
\* The peers a client may name in POST /api/network/connect-peer
ConnectUrls == PeerUrls \cup {"http://localhost:3001", currentNodeUrl}
\* The position of discoverPeers: idle, or awaiting quickHealthCheck(url)
Harvest(pc, url) == [pc |-> pc, url |-> url]
\* The position of a health-monitor cycle: idle, or in the loop of
\* SyncManager.cleanupUnhealthyPeers before the check of peer number idx,
\* with the loopback URLs the cycle filtered out and the healthyPeers and
\* removedPeers collected so far
Cleanup(pc, idx, filtered, healthyPeers, removedPeers) ==
  [pc |-> pc, idx |-> idx, filtered |-> filtered, healthyPeers |-> healthyPeers,
   removedPeers |-> removedPeers]

NoCleanup == Cleanup("idle", 0, <<>>, <<>>, <<>>)

\* The cleanupUnhealthyPeers calls that can be in flight together: the health
\* timers of the two startPeerDiscovery calls, and discoverPeers
Sweeps == 1..NumSweeps

\* The position of one cleanupUnhealthyPeers call: idle, awaiting the import
\* before the loop ("import"), or in the loop before the check of element
\* idx.  The loop iterates the array that was networkNodes when it began:
\* attached tells whether that array still is networkNodes, and own is its
\* content once it is not.
Sweep(pc, attached, own, idx, healthyPeers, removedPeers) ==
  [pc |-> pc, attached |-> attached, own |-> own, idx |-> idx,
   healthyPeers |-> healthyPeers, removedPeers |-> removedPeers]

NoSweep == Sweep("idle", FALSE, <<>>, 0, <<>>, <<>>)

\* The node a client names in POST /api/network/sync
SyncTargets == {"http://n2"}
SyncCallers == 1..NumSyncCallers

\* uuidv4() of the k-th call
Uuid(k) == 100 + k

\* The body of a request that submits a transaction
Body(amount, sender, recipient, fee) ==
  [amount |-> amount, sender |-> sender, recipient |-> recipient, fee |-> fee]

\* The timers of the node.  armed holds the timers that will fire, each with
\* the callback it runs; running holds the scheduled discovery callbacks that
\* are waiting for discoverPeers; the three handles are the fields the node
\* keeps (0 is null); starting counts the initializeBlockchain calls that
\* have not reached their start calls: the constructor makes one and
\* src/index.js a second one.  stopped is the set of tickers that a stop
\* operation halted and no start call has started since.
Timer(id, kind) == [id |-> id, kind |-> kind]

NoTimers ==
  [autoMining |-> TRUE, miningInterval |-> 0, discoveryInterval |-> 0,
   healthMonitorInterval |-> 0, armed |-> {}, running |-> {}, starting |-> 2,
   nextId |-> 0, stopped |-> {}]

\* setTimeout / setInterval: a new timer
Arm(t, kind) ==
  [t EXCEPT !.armed = @ \cup {Timer(t.nextId + 1, kind)}, !.nextId = @ + 1]

\* clearTimeout / clearInterval
Clear(t, id) == [t EXCEPT !.armed = {x \in @ : x.id # id}]

\* The calls of startPeerDiscovery: initializeBlockchain runs twice
Starts == 1..NumStarts

baseInterval == 45000
maxDiscoveryDelay == 300000

\* A delay in milliseconds as the fraction num/den
Millis(num, den) == [num |-> num, den |-> den]

\* A backoff without the cap of five minutes: C36 must not survive it
DiscoveryDelayUncapped(failureCount) ==
  Millis(baseInterval * Pow(3, failureCount), Pow(2, failureCount))

\* Math.min(baseInterval * Math.pow(1.5, failureCount), 300000)
DiscoveryDelay(failureCount) ==
  IF baseInterval * Pow(3, failureCount) <= maxDiscoveryDelay * Pow(2, failureCount)
  THEN Millis(baseInterval * Pow(3, failureCount), Pow(2, failureCount))
  ELSE Millis(maxDiscoveryDelay, 1)

\* The closure of one startPeerDiscovery call: its failureCount, the delay
\* of the timer set last, the timers set and not yet fired, and whether a
\* callback is awaiting discoverPeers
Backoff(failureCount, delay, timers, running) ==
  [failureCount |-> failureCount, delay |-> delay, timers |-> timers, running |-> running]

NoBackoff == Backoff(0, Millis(0, 1), 0, FALSE)

\* scheduleNextDiscovery of the closure b
scheduleNextDiscovery(b) ==
  [b EXCEPT !.delay = DiscoveryDelay(b.failureCount), !.timers = @ + 1]

\* What discoverPeers returns: it catches every error
DiscoveryResult(discovered, total) == [discovered |-> discovered, total |-> total]

\* The try block of the timer callback once discoverPeers has returned
AfterDiscovery(b, result) ==
  IF result.discovered > 0 \/ result.total > 0
  THEN [b EXCEPT !.failureCount = 0]
  ELSE [b EXCEPT !.failureCount = @ + 1]

\* The requests POST /transaction/broadcast sent to the peers: the peers that
\* have not answered (pending) and those whose request failed (failed).  The
\* handler answers its caller when Promise.all resolves.
Relay(pending, failed) == [pending |-> pending, failed |-> failed]

NoRelay == Relay({}, {})

\* The in-memory state a save reads
Snapshot(c, pending, nodes, d) ==
  [chain |-> c, pendingTransactions |-> pending, networkNodes |-> nodes,
   difficulty |-> d]

\* The keys of the store in the order saveToDatabase writes them
StoreKeys == <<"blockchain", "pendingTransactions", "networkNodes", "config">>

Savers == 1..NumSavers

\* The peers that are added and removed while the store is watched
StoreUrls == {"http://n2"}

\* The position of a saveToDatabase call: idle, awaiting db.open ("open") or
\* about to put key number key ("put"); op is the caller
Saving(pc, key, op) == [pc |-> pc, key |-> key, op |-> op]

NotSaving == Saving("idle", 0, "")

\* The store: its status, the keys that hold a value (has), for each key the
\* in-memory state its value was written from (written), and the saves in
\* flight.  dirty tells that a save of the current set of overlapping saves
\* was skipped or failed, overlapped that the set holds two saves or more;
\* boots counts the starts of the node on this store.
EmptyStore ==
  [status |-> "open", has |-> {},
   written |-> [k \in SeqToSet(StoreKeys) |-> Snapshot(<<>>, <<>>, <<>>, 0)],
   saves |-> [s \in Savers |-> NotSaving], dirty |-> FALSE,
   overlapped |-> FALSE, boots |-> 0]

NoRequest == Body(0, "", "", 0)

\* The bodies a client may POST to /transaction/send
SendBodies == {Body(10000, "EKH_A", "EKH_B", fee) : fee \in {0, minTransactionFee}}

\* Payments of more than half a faucet grant, and requests that name a
\* reserved sender or pay no fee
PayBodies ==
  {Body(PayAmount, "EKH_A", "EKH_B", fee) : fee \in {0, minTransactionFee}}
    \cup {Body(PayAmount, sender, "EKH_B", 0) : sender \in ReservedSenders}

\* Payments that need no balance: the sender is the reserved address '00'
BlockBodies == {Body(PayAmount, "00", "EKH_B", minTransactionFee)}

\* The invocations of autoMine that overlapping timer callbacks can make
MineRuns == 1..NumMineRuns

(* ------------------------------ state --------------------------------- *)
VARIABLES
  chain,                \* Blockchain.chain
  pendingTransactions,  \* Blockchain.pendingTransactions
  difficulty,           \* Blockchain.difficulty
  networkNodes,         \* Blockchain.networkNodes
  isMining,             \* Blockchain.isMining
  minePc,               \* position of each autoMine invocation
  httpMinePc,           \* position of the GET /mine request
  netSyncPc,            \* position of the POST /api/network/sync request
  discoverPc,           \* position of discoverPeers in its harvest loop
  healthPc,             \* position of the health-monitor cycle
  syncInProgress,       \* SyncManager.syncInProgress
  lastSyncAttempt,      \* SyncManager.lastSyncAttempt
  syncPc,               \* position of each performFullSync call
  syncIdx,              \* index of the peer a call is fetching from
  peerData,             \* peerData collected by each call
  now,                  \* Date.now()
  uuidCounter,          \* number of uuidv4() calls made
  tickers,              \* the timers of the node and the handles it keeps
  db,                   \* Blockchain.db and the saves in flight
  relay,                \* the peer requests of POST /transaction/broadcast
  backoff,              \* failureCount and timer of each startPeerDiscovery call
  sweeps,               \* the cleanupUnhealthyPeers calls in flight
  last                  \* the handler step taken last, with its outcome

vars == <<chain, pendingTransactions, difficulty, networkNodes, isMining, minePc,
          httpMinePc, netSyncPc, discoverPc, healthPc, syncInProgress, lastSyncAttempt,
          syncPc, syncIdx, peerData, now, uuidCounter, tickers, db, relay, backoff,
          sweeps, last>>

chainVars == <<chain, pendingTransactions, difficulty>>
syncVars == <<syncInProgress, lastSyncAttempt, syncPc, syncIdx, peerData>>
pcVars == <<isMining, minePc, httpMinePc, netSyncPc, discoverPc, healthPc>>
hostVars == <<tickers, db, relay, backoff, sweeps>>

\* The record of a step: the handler, its outcome and the candidate chain it
\* was offered.
Outcome(op, result, cand) ==
  [op |-> op, result |-> result, cand |-> cand, req |-> NoRequest]

Step(op, result) == Outcome(op, result, NoResponse)

\* The record of a step that served the request body req
Asked(op, result, req) == [Step(op, result) EXCEPT !.req = req]

\* The record left by a step whose outcome no property reads
Quiet == Step("", "")

Init ==
  /\ chain = ChainG
  /\ pendingTransactions = <<>>
  /\ difficulty = InitialDifficulty
  /\ networkNodes = <<>>
  /\ isMining = FALSE
  /\ minePc = [t \in MineRuns |-> "idle"]
  /\ httpMinePc = "idle"
  /\ netSyncPc = "idle"
  /\ discoverPc = Harvest("idle", "")
  /\ healthPc = NoCleanup
  /\ syncInProgress = FALSE
  /\ lastSyncAttempt = 0
  /\ syncPc = [c \in SyncCallers |-> "idle"]
  /\ syncIdx = [c \in SyncCallers |-> 0]
  /\ peerData = [c \in SyncCallers |-> <<>>]
  /\ now = StartTime
  /\ uuidCounter = 0
  /\ tickers = NoTimers
  /\ db = EmptyStore
  /\ relay = NoRelay
  /\ backoff = [k \in Starts |-> NoBackoff]
  /\ sweeps = [r \in Sweeps |-> NoSweep]
  /\ last = Step("init", "")

(* --------------------------- the clock -------------------------------- *)
Tick ==
  /\ now + TickStep <= MaxTime
  /\ now' = now + TickStep
  /\ last' = Quiet
  /\ UNCHANGED <<chainVars, networkNodes, pcVars, syncVars, uuidCounter, hostVars>>

\* The clock in steps around the sync cooldown
TickSync ==
  /\ \E d \in {syncCooldown - 1, syncCooldown} :
       /\ now + d <= SyncMaxTime
       /\ now' = now + d
  /\ last' = Quiet
  /\ UNCHANGED <<chainVars, networkNodes, pcVars, syncVars, uuidCounter, hostVars>>

\* The clock in steps around the two thresholds of adjustDifficulty
AdjustSteps == {targetBlockTime \div 2, targetBlockTime * 2, targetBlockTime * 2 + 1}

TickAdjust ==
  /\ \E d \in AdjustSteps :
       /\ now + d <= AdjustMaxTime
       /\ now' = now + d
  /\ last' = Quiet
  /\ UNCHANGED <<chainVars, networkNodes, pcVars, syncVars, uuidCounter, hostVars>>

(* ----------------------- transaction admission ------------------------ *)
\* addTransactionToPendingTransactions: a falsy fee becomes the minimum fee
WithDefaultFee(tx) == IF tx.fee = 0 THEN [tx EXCEPT !.fee = minTransactionFee] ELSE tx

addTransactionToPendingTransactions(pending, tx) == Append(pending, WithDefaultFee(tx))

\* POST /transaction for one of the given bodies: a body that carries an
\* amount, a sender and a recipient is pushed as it is
PostTransactionOf(bodies, maxPending) ==
  /\ Len(pendingTransactions) < maxPending
  /\ \E tx \in bodies :
       /\ tx.amount # 0 /\ tx.sender # "" /\ tx.recipient # ""
       /\ pendingTransactions' = addTransactionToPendingTransactions(pendingTransactions, tx)
  /\ last' = Quiet
  /\ UNCHANGED <<chain, difficulty, networkNodes, pcVars, syncVars, now, uuidCounter, hostVars>>

PostTransaction == PostTransactionOf(RawTransactions, MaxPending)

\* POST /transaction with or without a transactionId in the body
PostAnyTransaction == PostTransactionOf(RawTransactions \cup {TxNoId}, MaxPending)

\* createNewTransaction: "throw" or the new transaction
createNewTransaction(c, amount, sender, recipient, fee, id) ==
  IF isValidTransaction(c, amount, sender, recipient, fee) # "true"
  THEN [threw |-> TRUE, value |-> NullTx]
  ELSE [threw |-> FALSE,
        value |-> Tx(id, sender, recipient, amount, Max(fee, minTransactionFee))]

\* POST /transaction/send for one of the given bodies, on a node that has
\* room for it
SendTransactionOf(bodies, maxPending, maxUuid) ==
  /\ Len(pendingTransactions) < maxPending
  /\ uuidCounter < maxUuid
  /\ \E body \in bodies :
       LET r == createNewTransaction(chain, body.amount, body.sender, body.recipient,
                                     body.fee, Uuid(uuidCounter + 1))
       IN IF \/ ~isValidAddress(body.sender) \/ ~isValidAddress(body.recipient)
             \/ body.amount = 0
             \/ r.threw
          THEN /\ last' = Asked("transaction/send", "rejected", body)
               /\ UNCHANGED <<pendingTransactions, uuidCounter>>
          ELSE /\ pendingTransactions' =
                    addTransactionToPendingTransactions(pendingTransactions, r.value)
               /\ uuidCounter' = uuidCounter + 1
               /\ last' = Asked("transaction/send", "accepted", body)
  /\ UNCHANGED <<chain, difficulty, networkNodes, pcVars, syncVars, now, hostVars>>

SendTransaction == SendTransactionOf(SendBodies, MaxPending, MaxUuid)

\* POST /transaction/send on a node whose mempool holds one transaction
SendOneTransaction == SendTransactionOf(BlockBodies, MaxPending, AdjustMaxUuid)

\* POST /transaction/send on a node whose mempool can outgrow one block
SendManyTransactions == SendTransactionOf(BlockBodies, BlockMaxPending, BlockMaxUuid)

\* POST /transaction/broadcast: createNewTransaction without a fee; forwarding
\* the transaction to the peers changes nothing on this node
BroadcastTransactionOf(bodies, maxPending, maxUuid) ==
  /\ Len(pendingTransactions) < maxPending
  /\ uuidCounter < maxUuid
  /\ relay.pending = {}
  /\ \E body \in bodies :
       LET r == createNewTransaction(chain, body.amount, body.sender, body.recipient,
                                     0, Uuid(uuidCounter + 1))
       IN IF r.threw
          THEN /\ last' = Asked("transaction/broadcast", "rejected", [body EXCEPT !.fee = 0])
               /\ UNCHANGED <<pendingTransactions, uuidCounter, relay>>
          ELSE /\ pendingTransactions' =
                    addTransactionToPendingTransactions(pendingTransactions, r.value)
               /\ uuidCounter' = uuidCounter + 1
               /\ relay' = Relay(SeqToSet(networkNodes), {})
               /\ last' = Asked("transaction/broadcast", "accepted", [body EXCEPT !.fee = 0])
  /\ UNCHANGED <<chain, difficulty, networkNodes, pcVars, syncVars, now, tickers, db, backoff, sweeps>>

\* A peer answers the POST /transaction of a broadcast, or the request fails.
\* Promise.all resolves when every request has succeeded, and the handler
\* answers its caller; after a rejection the catch logs the error.
PeerAnswers ==
  /\ \E nodeUrl \in relay.pending, ok \in BOOLEAN :
       LET settled == Relay(relay.pending \ {nodeUrl},
                            IF ok THEN relay.failed ELSE relay.failed \cup {nodeUrl})
       IN  /\ relay' = IF settled.pending = {} /\ settled.failed = {}
                       THEN NoRelay ELSE settled
           /\ last' = IF settled.pending # {} THEN Step("transaction/broadcast", "waiting")
                      ELSE IF settled.failed = {}
                           THEN Step("transaction/broadcast", "responded")
                           ELSE Step("transaction/broadcast", "no response")
  /\ UNCHANGED <<chainVars, networkNodes, pcVars, syncVars, now, uuidCounter, tickers, db, backoff, sweeps>>

\* The faucet's rate limit: a faucet transaction to the address is on the
\* chain (every time of the model lies within the limit's one hour).
RecentFaucetTx(c, address) ==
  \E t \in SeqToSet(ChainTxs(c)) : t.sender = "FAUCET" /\ t.recipient = address

\* POST /api/faucet/request on a node that has room for the transaction
FaucetRequestOf(maxPending, maxUuid) ==
  /\ Len(pendingTransactions) < maxPending
  /\ uuidCounter < maxUuid
  /\ \E address \in {"EKH_A"} :
       IF RecentFaucetTx(chain, address)
       THEN /\ last' = Quiet
            /\ UNCHANGED <<pendingTransactions, uuidCounter>>
       ELSE /\ pendingTransactions' =
                 addTransactionToPendingTransactions(pendingTransactions,
                   Tx(Uuid(uuidCounter + 1), "FAUCET", address, faucetAmount, 0))
            /\ uuidCounter' = uuidCounter + 1
            /\ last' = Quiet
  /\ UNCHANGED <<chain, difficulty, networkNodes, pcVars, syncVars, now, hostVars>>

FaucetRequest == FaucetRequestOf(MaxPending, MaxUuid)

(* ------------------------------ mining -------------------------------- *)
\* pendingTransactions.slice(0, maxTransactionsPerBlock)
Processed(pending) == SubSeq(pending, 1, Min(Len(pending), maxTransactionsPerBlock))

\* A commit that empties the mempool: C33 must not survive it
RemainingNone(pending) == <<>>

\* pendingTransactions.slice(maxTransactionsPerBlock)
Remaining(pending) == SubSeq(pending, maxTransactionsPerBlock + 1, Len(pending))

\* currentBlockData of autoMine and of GET /mine
currentBlockData(c, pending) ==
  [transactions |-> Processed(pending), index |-> getLastBlock(c).index + 1]

\* The reward transaction autoMine builds
rewardTransaction(id) == Tx(id, "00", minerAddress, miningReward, 0)

\* currentBlockData of autoMine after the reward transaction is pushed onto
\* its transactions, which happens after the nonce search and the hashing.
\* createNewBlock is not passed this object: it slices pendingTransactions
\* again.
RewardedBlockData(c, pending, id) ==
  [currentBlockData(c, pending) EXCEPT
     !.transactions = Append(@, rewardTransaction(id))]

\* index of the block createNewBlock builds
NewBlockIndex(c) == Len(c) + 1

createNewBlock(c, pending, d, timestamp, nonce, previousBlockHash, hash) ==
  Block(NewBlockIndex(c), timestamp, Processed(pending), nonce, hash,
        previousBlockHash, d, SumFees(Processed(pending)))

\* A run whose previousBlockHash is the hash of the first block, as if the
\* chain had grown after the run read its tip: C37 must not survive it
MinedBlockOnStaleTip(c, pending, d, timestamp) ==
  LET previousBlockHash == c[1].hash
      data == currentBlockData(c, pending)
      nonce == proofOfWork(previousBlockHash, data, d)
      blockHash == hashBlock(previousBlockHash, data, nonce)
  IN createNewBlock(c, pending, d, timestamp, nonce, previousBlockHash, blockHash)

\* The block a mining run appends: nonce search over currentBlockData, then
\* createNewBlock
MinedBlock(c, pending, d, timestamp) ==
  LET previousBlockHash == getLastBlock(c).hash
      data == currentBlockData(c, pending)
      nonce == proofOfWork(previousBlockHash, data, d)
      blockHash == hashBlock(previousBlockHash, data, nonce)
  IN createNewBlock(c, pending, d, timestamp, nonce, previousBlockHash, blockHash)

\* A decrement without the floor of 1: C34 must not survive it
adjustDifficultyNoFloor(c, d) ==
  IF Len(c) < 2 THEN d
  ELSE LET timeDiff == c[Len(c)].timestamp - c[Len(c) - 1].timestamp
       IN IF 2 * timeDiff < targetBlockTime THEN d + 1
          ELSE IF timeDiff > targetBlockTime * 2 THEN d - 1
          ELSE d

\* Comparisons that include the two thresholds: the amended C35 must not
\* survive it
adjustDifficultyInclusive(c, d) ==
  IF Len(c) < 2 THEN d
  ELSE LET timeDiff == c[Len(c)].timestamp - c[Len(c) - 1].timestamp
       IN IF 2 * timeDiff <= targetBlockTime THEN d + 1
          ELSE IF timeDiff >= targetBlockTime * 2 THEN Max(1, d - 1)
          ELSE d

adjustDifficulty(c, d) ==
  IF Len(c) < 2 THEN d
  ELSE LET timeDiff == c[Len(c)].timestamp - c[Len(c) - 1].timestamp
       IN IF 2 * timeDiff < targetBlockTime THEN d + 1
          ELSE IF timeDiff > targetBlockTime * 2 THEN Max(1, d - 1)
          ELSE d

\* The common part of autoMine and GET /mine up to the await of
\* saveToDatabase.  A null entry in the mempool makes createNewBlock raise.
MineCommit(op) ==
  /\ PowTerminates(difficulty)
  /\ IF NullTx \in SeqToSet(Processed(pendingTransactions))
     THEN /\ last' = Step(op, "error")
          /\ UNCHANGED <<chain, pendingTransactions>>
     ELSE /\ Len(chain) < MaxChainLen
          /\ chain' = Append(chain, MinedBlock(chain, pendingTransactions, difficulty, now))
          /\ pendingTransactions' = Remaining(pendingTransactions)
          /\ last' = Step(op, "mined")

\* A timer callback that starts a run whenever the mempool is non-empty: C16
\* must not survive it
MineGuardNoFlag(mining, pending) == pending # <<>>

\* The test of the timer callback of startAutoMining, made again by autoMine
MineGuard(mining, pending) == ~mining /\ pending # <<>>

\* The timer callback of startAutoMining and autoMine up to its first await,
\* as invocation t.  When createNewBlock raises, autoMine's catch and finally
\* run before anything else does.
AutoMineCommit(t) ==
  /\ minePc[t] = "idle"
  /\ MineGuard(isMining, pendingTransactions)
  /\ MineCommit("autoMine")
  /\ IF NullTx \in SeqToSet(Processed(pendingTransactions))
     THEN /\ isMining' = FALSE
          /\ UNCHANGED minePc
     ELSE /\ isMining' = TRUE
          /\ minePc' = [minePc EXCEPT ![t] = "saved"]
  /\ UNCHANGED <<difficulty, networkNodes, httpMinePc, netSyncPc, discoverPc, healthPc, syncVars, now, uuidCounter, hostVars>>

\* autoMine after createNewBlock: adjustDifficulty, then broadcastNewBlock
AutoMineAdjust(t) ==
  /\ minePc[t] = "saved"
  /\ difficulty' = adjustDifficulty(chain, difficulty)
  /\ minePc' = [minePc EXCEPT ![t] = "broadcast"]
  /\ last' = Quiet
  /\ UNCHANGED <<chain, pendingTransactions, networkNodes, isMining, httpMinePc,
                 netSyncPc, discoverPc, healthPc, syncVars, now, uuidCounter, hostVars>>

\* autoMine's finally
AutoMineFinish(t) ==
  /\ minePc[t] = "broadcast"
  /\ isMining' = FALSE
  /\ minePc' = [minePc EXCEPT ![t] = "idle"]
  /\ last' = Quiet
  /\ UNCHANGED <<chainVars, networkNodes, httpMinePc, netSyncPc, discoverPc, healthPc, syncVars, now, uuidCounter, hostVars>>

\* GET /mine up to the await of saveToDatabase
HttpMineCommit ==
  /\ httpMinePc = "idle"
  /\ pendingTransactions # <<>>
  /\ MineCommit("mine")
  /\ httpMinePc' = IF NullTx \in SeqToSet(Processed(pendingTransactions))
                   THEN "idle" ELSE "saved"
  /\ UNCHANGED <<difficulty, networkNodes, isMining, minePc, netSyncPc, discoverPc, healthPc, syncVars,
                 now, uuidCounter, hostVars>>

\* GET /mine after createNewBlock: adjustDifficulty.  The reward transaction
\* it then builds names a recipient that is no address, so createNewTransaction
\* raises and nothing is added.
HttpMineAdjust ==
  /\ httpMinePc = "saved"
  /\ difficulty' = adjustDifficulty(chain, difficulty)
  /\ httpMinePc' = "idle"
  /\ last' = Quiet
  /\ UNCHANGED <<chain, pendingTransactions, networkNodes, isMining, minePc,
                 netSyncPc, discoverPc, healthPc, syncVars, now, uuidCounter, hostVars>>

(* --------------------------- inbound block ---------------------------- *)
\* A receiver that compares the index only: C1 must not survive it
AcceptsBlockIndexOnly(c, newBlock) == getLastBlock(c).index + 1 = newBlock.index

\* A receiver that compares the hash link only: C14 must not survive it
AcceptsBlockLinkOnly(c, newBlock) == getLastBlock(c).hash = newBlock.previousBlockHash

\* The test of POST /receive-new-block
AcceptsBlock(c, newBlock) ==
  /\ getLastBlock(c).hash = newBlock.previousBlockHash
  /\ getLastBlock(c).index + 1 = newBlock.index

\* POST /receive-new-block; the step records the note of the response and the
\* block that was offered
ReceiveNewBlock ==
  /\ Len(chain) < MaxChainLen
  /\ \E newBlock \in InboundBlocks(getLastBlock(chain), now) :
       IF AcceptsBlock(chain, newBlock)
       THEN /\ chain' = Append(chain, newBlock)
            /\ pendingTransactions' = <<>>
            /\ last' = Outcome("receiveNewBlock", "New block received and accepted",
                               Response(<<newBlock>>, <<>>, 0))
       ELSE /\ last' = Outcome("receiveNewBlock", "New block rejected",
                               Response(<<newBlock>>, <<>>, 0))
            /\ UNCHANGED <<chain, pendingTransactions>>
  /\ UNCHANGED <<difficulty, networkNodes, pcVars, syncVars, now, uuidCounter, hostVars>>

(* ------------------------------- peers -------------------------------- *)
\* addNetworkNode, and the test of POST /register-node
addNetworkNode(nodes, nodeUrl) ==
  IF nodeUrl \notin SeqToSet(nodes) /\ nodeUrl # currentNodeUrl
  THEN Append(nodes, nodeUrl) ELSE nodes

\* POST /register-node
RegisterNode ==
  /\ \E newNodeUrl \in PeerUrls \cup {currentNodeUrl} :
       networkNodes' = addNetworkNode(networkNodes, newNodeUrl)
  /\ last' = Quiet
  /\ UNCHANGED <<chainVars, pcVars, syncVars, now, uuidCounter, hostVars>>

\* POST /register-nodes-bulk
RECURSIVE BulkFrom(_, _, _)
BulkFrom(nodes, allNetworkNodes, k) ==
  IF k > Len(allNetworkNodes) THEN nodes
  ELSE BulkFrom(addNetworkNode(nodes, allNetworkNodes[k]), allNetworkNodes, k + 1)

RegisterNodesBulk ==
  /\ \E allNetworkNodes \in BulkLists :
       networkNodes' = BulkFrom(networkNodes, allNetworkNodes, 1)
  /\ last' = Quiet
  /\ UNCHANGED <<chainVars, pcVars, syncVars, now, uuidCounter, hostVars>>

\* POST /register-and-broadcast-node: addNetworkNode; the requests to the
\* other nodes that follow change nothing on this node
RegisterAndBroadcastNode ==
  /\ \E newNodeUrl \in PeerUrls \cup {currentNodeUrl} :
       networkNodes' = addNetworkNode(networkNodes, newNodeUrl)
  /\ last' = Quiet
  /\ UNCHANGED <<chainVars, pcVars, syncVars, now, uuidCounter, hostVars>>

\* POST /api/network/connect-peer after the peer answered the registration:
\* the peer is pushed unless it is in the list.  The sync the handler then
\* starts is performFullSync.
ConnectPeer ==
  /\ Len(networkNodes) < MaxPeers
  /\ \E peerUrl \in ConnectUrls :
       networkNodes' = IF peerUrl \notin SeqToSet(networkNodes)
                       THEN Append(networkNodes, peerUrl) ELSE networkNodes
  /\ last' = Quiet
  /\ UNCHANGED <<chainVars, pcVars, syncVars, now, uuidCounter, hostVars>>

isValidPeerUrl(url) ==
  /\ url # ""
  /\ url # currentNodeUrl
  /\ url \notin LoopbackUrls

\* The harvest loop of discoverPeers for one listed peer, up to the await of
\* quickHealthCheck
DiscoverCheck ==
  /\ discoverPc.pc = "idle"
  /\ \E peerUrl \in HarvestedUrls :
       discoverPc' = IF isValidPeerUrl(peerUrl) /\ peerUrl \notin SeqToSet(networkNodes)
                     THEN Harvest("health", peerUrl) ELSE discoverPc
  /\ last' = Quiet
  /\ UNCHANGED <<chainVars, networkNodes, isMining, minePc, httpMinePc, netSyncPc,
                 healthPc, syncVars, now, uuidCounter, hostVars>>

\* The harvest loop after quickHealthCheck returned: a healthy peer is pushed
DiscoverPush ==
  /\ discoverPc.pc = "health"
  /\ Len(networkNodes) < MaxPeers
  /\ \E healthy \in BOOLEAN :
       networkNodes' = IF healthy THEN Append(networkNodes, discoverPc.url)
                       ELSE networkNodes
  /\ discoverPc' = Harvest("idle", "")
  /\ last' = Quiet
  /\ UNCHANGED <<chainVars, isMining, minePc, httpMinePc, netSyncPc, healthPc,
                 syncVars, now, uuidCounter, hostVars>>

\* A filter that keeps every URL: C24 must not survive it
WithLoopback(nodes) == nodes

\* The filter of Blockchain.cleanupUnhealthyPeers, and what it drops
WithoutLoopback(nodes) ==
  LET remote(nodeUrl) == nodeUrl \notin LoopbackUrls
  IN SelectSeq(nodes, remote)

OnlyLoopback(nodes) ==
  LET isLocalhost(nodeUrl) == nodeUrl \in LoopbackUrls
  IN SelectSeq(nodes, isLocalhost)

\* The timer callback of startPeerHealthMonitoring up to the loop of
\* SyncManager.cleanupUnhealthyPeers: loopback URLs are filtered out
HealthStart ==
  /\ healthPc.pc = "idle"
  /\ networkNodes # <<>>
  /\ networkNodes' = WithoutLoopback(networkNodes)
  /\ healthPc' = IF networkNodes' = <<>> THEN NoCleanup
                 ELSE Cleanup("check", 1, OnlyLoopback(networkNodes), <<>>, <<>>)
  /\ last' = Step("cleanupUnhealthyPeers", "filtered")
  /\ UNCHANGED <<chainVars, isMining, minePc, httpMinePc, netSyncPc, discoverPc,
                 syncVars, now, uuidCounter, hostVars>>

\* One iteration of the loop: checkPeerHealth of the peer at idx answers or
\* fails
HealthCheck ==
  /\ healthPc.pc = "check"
  /\ healthPc.idx <= Len(networkNodes)
  /\ \E healthy \in BOOLEAN :
       LET peerUrl == networkNodes[healthPc.idx]
       IN healthPc' =
            IF healthy
            THEN [healthPc EXCEPT !.idx = @ + 1, !.healthyPeers = Append(@, peerUrl)]
            ELSE [healthPc EXCEPT !.idx = @ + 1, !.removedPeers = Append(@, peerUrl)]
  /\ last' = Quiet
  /\ UNCHANGED <<chainVars, networkNodes, isMining, minePc, httpMinePc, netSyncPc,
                 discoverPc, syncVars, now, uuidCounter, hostVars>>

\* The end of the loop: when a peer failed its check, the list becomes
\* healthyPeers.  The step records what the cycle filtered, kept and removed.
HealthFinish ==
  /\ healthPc.pc = "check"
  /\ healthPc.idx > Len(networkNodes)
  /\ networkNodes' = IF healthPc.removedPeers # <<>> THEN healthPc.healthyPeers
                     ELSE networkNodes
  /\ healthPc' = NoCleanup
  /\ last' = Asked("cleanupUnhealthyPeers", "done", healthPc)
  /\ UNCHANGED <<chainVars, isMining, minePc, httpMinePc, netSyncPc, discoverPc,
                 syncVars, now, uuidCounter, hostVars>>

\* The array the loop of call r iterates
SweptArray(all, nodes, r) == IF all[r].attached THEN nodes ELSE all[r].own

\* An assignment to networkNodes by call r: the loops of the other calls keep
\* the array they iterate, which is networkNodes no longer
Reassigned(all, nodes, r) ==
  [q \in Sweeps |->
     IF q # r /\ all[q].pc = "check" /\ all[q].attached
     THEN [all[q] EXCEPT !.attached = FALSE, !.own = nodes]
     ELSE all[q]]

\* Blockchain.cleanupUnhealthyPeers, call r, up to the await of the import in
\* SyncManager.cleanupUnhealthyPeers: filter returns a new array
SweepFilter(r) ==
  /\ sweeps[r].pc = "idle"
  /\ networkNodes # <<>>
  /\ networkNodes' = WithoutLoopback(networkNodes)
  /\ sweeps' = [Reassigned(sweeps, networkNodes, r) EXCEPT
                  ![r] = IF networkNodes' = <<>> THEN NoSweep
                         ELSE Sweep("import", FALSE, <<>>, 0, <<>>, <<>>)]
  /\ last' = Asked("cleanupUnhealthyPeers", "filtered", [sweep |-> r])
  /\ UNCHANGED <<chainVars, pcVars, syncVars, now, uuidCounter, tickers, db, relay, backoff>>

\* The loop of call r begins on the array networkNodes is now
SweepBegin(r) ==
  /\ sweeps[r].pc = "import"
  /\ sweeps' = [sweeps EXCEPT ![r] = Sweep("check", TRUE, <<>>, 1, <<>>, <<>>)]
  /\ last' = Quiet
  /\ UNCHANGED <<chainVars, networkNodes, pcVars, syncVars, now, uuidCounter,
                 tickers, db, relay, backoff>>

\* One iteration of the loop of call r: checkPeerHealth answers or fails
SweepCheck(r) ==
  /\ sweeps[r].pc = "check"
  /\ sweeps[r].idx <= Len(SweptArray(sweeps, networkNodes, r))
  /\ \E healthy \in BOOLEAN :
       LET peerUrl == SweptArray(sweeps, networkNodes, r)[sweeps[r].idx]
       IN sweeps' =
            IF healthy
            THEN [sweeps EXCEPT ![r].idx = @ + 1, ![r].healthyPeers = Append(@, peerUrl)]
            ELSE [sweeps EXCEPT ![r].idx = @ + 1, ![r].removedPeers = Append(@, peerUrl)]
  /\ last' = Quiet
  /\ UNCHANGED <<chainVars, networkNodes, pcVars, syncVars, now, uuidCounter,
                 tickers, db, relay, backoff>>

\* The end of the loop of call r: when a peer failed its check, networkNodes
\* becomes the array healthyPeers
SweepFinish(r) ==
  /\ sweeps[r].pc = "check"
  /\ sweeps[r].idx > Len(SweptArray(sweeps, networkNodes, r))
  /\ IF sweeps[r].removedPeers # <<>>
     THEN /\ networkNodes' = sweeps[r].healthyPeers
          /\ sweeps' = [Reassigned(sweeps, networkNodes, r) EXCEPT ![r] = NoSweep]
     ELSE /\ UNCHANGED networkNodes
          /\ sweeps' = [sweeps EXCEPT ![r] = NoSweep]
  /\ last' = Asked("cleanupUnhealthyPeers", "done", [sweep |-> r])
  /\ UNCHANGED <<chainVars, pcVars, syncVars, now, uuidCounter, tickers, db, relay, backoff>>

(* ------------------------------ tickers ------------------------------- *)
\* startAutoMining: a new interval whose id overwrites miningInterval; an
\* interval the field held before is not cleared
startAutoMining(t) ==
  LET a == Arm(t, "mining")
  IN  [a EXCEPT !.miningInterval = a.nextId, !.stopped = @ \ {"mining"}]

\* stopAutoMining: clears the interval miningInterval holds
stopAutoMining(t) ==
  IF t.miningInterval # 0
  THEN [Clear(t, t.miningInterval) EXCEPT !.miningInterval = 0]
  ELSE t

\* startPeerDiscovery: a one-shot timer for the initial discovery, whose id
\* is not kept; scheduleNextDiscovery; startPeerHealthMonitoring
startPeerDiscovery(t) ==
  LET a == Arm(t, "initialDiscovery")
      b == Arm(a, "discovery")
      c == Arm([b EXCEPT !.discoveryInterval = b.nextId], "health")
  IN  [c EXCEPT !.healthMonitorInterval = c.nextId,
                !.stopped = @ \ {"discovery", "health"}]

stopPeerDiscovery(t) ==
  LET a == IF t.discoveryInterval # 0
           THEN [Clear(t, t.discoveryInterval) EXCEPT !.discoveryInterval = 0]
           ELSE t
  IN  IF a.healthMonitorInterval # 0
      THEN [Clear(a, a.healthMonitorInterval) EXCEPT !.healthMonitorInterval = 0]
      ELSE a

stopAllProcesses(t) == stopPeerDiscovery(stopAutoMining(t))

\* A step of the timers leaves the ledger, the peers and the store alone
TickerFrame ==
  UNCHANGED <<chainVars, networkNodes, pcVars, syncVars, now, uuidCounter, db, relay, backoff, sweeps>>

\* The end of an initializeBlockchain call: auto-mining when enabled, then
\* peer discovery
InitializeStart ==
  /\ tickers.starting > 0
  /\ tickers.nextId + 4 <= MaxTimers
  /\ tickers' = [startPeerDiscovery(IF tickers.autoMining
                                    THEN startAutoMining(tickers)
                                    ELSE tickers)
                   EXCEPT !.starting = @ - 1]
  /\ last' = Step("initializeBlockchain", "started")
  /\ TickerFrame

\* POST /mining/start
MiningStart ==
  /\ tickers.starting = 0
  /\ tickers.nextId + 1 <= MaxTimers
  /\ IF ~tickers.autoMining
     THEN /\ tickers' = startAutoMining([tickers EXCEPT !.autoMining = TRUE])
          /\ last' = Step("POST /mining/start", "started")
     ELSE /\ tickers' = tickers
          /\ last' = Step("POST /mining/start", "already active")
  /\ TickerFrame

\* POST /mining/stop
MiningStop ==
  /\ tickers.starting = 0
  /\ tickers' = [stopAutoMining([tickers EXCEPT !.autoMining = FALSE])
                   EXCEPT !.stopped = @ \cup {"mining"}]
  /\ last' = Step("POST /mining/stop", "stopped")
  /\ TickerFrame

\* POST /api/node/restart: stopAllProcesses now, the start calls one second
\* later
NodeRestart ==
  /\ tickers.starting = 0
  /\ tickers.nextId + 1 <= MaxTimers
  /\ tickers' = Arm([stopAllProcesses(tickers)
                       EXCEPT !.stopped = {"mining", "discovery", "health"}],
                    "restart")
  /\ last' = Step("POST /api/node/restart", "stopped")
  /\ TickerFrame

\* The timeout of POST /api/node/restart
RestartFire ==
  /\ tickers.nextId + 4 <= MaxTimers
  /\ \E x \in tickers.armed :
       /\ x.kind = "restart"
       /\ tickers' = startPeerDiscovery(startAutoMining(Clear(tickers, x.id)))
  /\ last' = Step("POST /api/node/restart", "started")
  /\ TickerFrame

\* The callback of the auto-mining interval starts
MiningTick ==
  /\ \E x \in tickers.armed : x.kind = "mining"
  /\ last' = Step("tick", "mining")
  /\ UNCHANGED tickers
  /\ TickerFrame

\* The callback of the health-monitor interval starts
HealthTick ==
  /\ \E x \in tickers.armed : x.kind = "health"
  /\ last' = Step("tick", "health")
  /\ UNCHANGED tickers
  /\ TickerFrame

\* The initial discovery of startPeerDiscovery starts
InitialDiscoveryFire ==
  /\ \E x \in tickers.armed :
       /\ x.kind = "initialDiscovery"
       /\ tickers' = Clear(tickers, x.id)
  /\ last' = Step("tick", "discovery")
  /\ TickerFrame

\* A scheduled discovery starts: the callback awaits discoverPeers
DiscoveryFire ==
  /\ \E x \in tickers.armed :
       /\ x.kind = "discovery"
       /\ tickers' = [Clear(tickers, x.id) EXCEPT !.running = @ \cup {x.id}]
  /\ last' = Step("tick", "discovery")
  /\ TickerFrame

\* discoverPeers returned or threw: the finally block schedules the next
\* discovery and stores the new timer in discoveryInterval
DiscoveryDone ==
  /\ tickers.nextId + 1 <= MaxTimers
  /\ \E id \in tickers.running :
       LET a == Arm([tickers EXCEPT !.running = @ \ {id}], "discovery")
       IN  tickers' = [a EXCEPT !.discoveryInterval = a.nextId]
  /\ last' = Step("scheduleNextDiscovery", "scheduled")
  /\ TickerFrame

\* startPeerDiscovery, call k: failureCount = 0 and scheduleNextDiscovery
BackoffStart(k) ==
  /\ backoff[k] = NoBackoff
  /\ backoff' = [backoff EXCEPT ![k] = scheduleNextDiscovery(@)]
  /\ last' = Asked("startPeerDiscovery", "scheduled", [start |-> k])
  /\ UNCHANGED <<chainVars, networkNodes, pcVars, syncVars, now, uuidCounter,
                 tickers, db, relay, sweeps>>

\* The timer of call k fires: its callback awaits discoverPeers
BackoffFire(k) ==
  /\ backoff[k].timers > 0
  /\ backoff' = [backoff EXCEPT ![k].timers = @ - 1, ![k].running = TRUE]
  /\ last' = Asked("discoverPeers", "started", [start |-> k])
  /\ UNCHANGED <<chainVars, networkNodes, pcVars, syncVars, now, uuidCounter,
                 tickers, db, relay, sweeps>>

\* discoverPeers has returned to the callback of call k, having pushed
\* discovered peers: the try block and the finally block
BackoffDone(k) ==
  /\ backoff[k].running
  /\ \E discovered \in 0..Min(1, Len(networkNodes)) :
       LET result == DiscoveryResult(discovered, Len(networkNodes))
           b == AfterDiscovery([backoff[k] EXCEPT !.running = FALSE], result)
       IN /\ b.failureCount <= MaxFailures
          /\ backoff' = [backoff EXCEPT ![k] = scheduleNextDiscovery(b)]
          /\ last' = Asked("scheduleNextDiscovery",
                           IF b.failureCount = 0 THEN "reset" ELSE "failed",
                           [start |-> k, found |-> result])
  /\ UNCHANGED <<chainVars, networkNodes, pcVars, syncVars, now, uuidCounter,
                 tickers, db, relay, sweeps>>

(* ------------------------------- store -------------------------------- *)
\* How saveToDatabase settles under a fault ("none", "closed", "open" for a
\* db.open that throws, "write" for a db.put that throws): every throw is
\* caught inside the function
saveToDatabaseUncaught(fault) == IF fault \in {"open", "write"} THEN "rejected" ELSE "resolved"

saveToDatabase(fault) == "resolved"

\* What the caller of saveToDatabase does when the save has settled:
\* addNetworkNode does not await it, the other callers do
CallerEnds(op, settled) ==
  IF settled = "rejected" /\ op # "addNetworkNode" THEN "threw" ELSE "returned"

\* The record of a step in which the save called by op settled; at tells
\* whether it settled in the caller's step ("call") or after an await
Settled(op, fault, at) ==
  Asked("saveToDatabase", CallerEnds(op, saveToDatabase(fault)),
        [op |-> op, fault |-> fault, at |-> at])

\* db.put of key number k from the in-memory state snap
Put(store, k, snap, ok) ==
  IF ok
  THEN [store EXCEPT !.has = @ \cup {StoreKeys[k]}, !.written[StoreKeys[k]] = snap]
  ELSE [store EXCEPT !.dirty = TRUE]

\* A put of saver s and what follows it: the next key, or the end of the save
\* after the last key and after a failed write
PutBy(store, s, k, snap, ok) ==
  LET written == Put(store, k, snap, ok)
      saving == store.saves[s]
  IN  IF ok /\ k < Len(StoreKeys)
      THEN [written EXCEPT !.saves[s] = Saving("put", k + 1, saving.op)]
      ELSE [written EXCEPT !.saves[s] = NotSaving]

PutFault(k, ok) == IF ~ok THEN "write" ELSE IF k = Len(StoreKeys) THEN "none" ELSE ""

\* The call of saveToDatabase by op up to its first await: return when the
\* store is closed, await db.open when it is not open, else put the chain
SaveCall(store, s, op, snap, ok) ==
  LET fresh == IF \A r \in Savers : store.saves[r].pc = "idle"
               THEN [store EXCEPT !.dirty = FALSE, !.overlapped = FALSE]
               ELSE [store EXCEPT !.overlapped = TRUE]
      called == [fresh EXCEPT !.saves[s] = Saving("put", 1, op)]
  IN  IF store.status = "closed" THEN [fresh EXCEPT !.dirty = TRUE]
      ELSE IF store.status # "open"
           THEN [fresh EXCEPT !.saves[s] = Saving("open", 1, op)]
           ELSE PutBy(called, s, 1, snap, ok)

CallFault(store, ok) ==
  IF store.status = "closed" THEN "closed"
  ELSE IF store.status # "open" THEN "" ELSE PutFault(1, ok)

\* The record of the step that called the save
Called(store, op, ok) ==
  IF CallFault(store, ok) = "" THEN Step(op, "saving")
  ELSE Settled(op, CallFault(store, ok), "call")

Memory == Snapshot(chain, pendingTransactions, networkNodes, difficulty)

\* A caller that changes the in-memory state to after and saves
MutateAndSave(s, op, after, ok) ==
  /\ db.saves[s].pc = "idle"
  /\ chain' = after.chain
  /\ pendingTransactions' = after.pendingTransactions
  /\ networkNodes' = after.networkNodes
  /\ difficulty' = after.difficulty
  /\ db' = SaveCall(db, s, op, after, ok)
  /\ last' = Called(db, op, ok)
  /\ UNCHANGED <<pcVars, syncVars, now, uuidCounter, tickers, relay, backoff, sweeps>>

\* addTransactionToPendingTransactions with its save
AdmitAndSaveBy(savers) ==
  /\ Len(pendingTransactions) < MaxPending
  /\ \E s \in savers, tx \in RawTransactions, ok \in BOOLEAN :
       MutateAndSave(s, "addTransactionToPendingTransactions",
                     [Memory EXCEPT !.pendingTransactions =
                        addTransactionToPendingTransactions(pendingTransactions, tx)],
                     ok)

\* addNetworkNode with its save, which it does not await
AddNodeAndSaveBy(savers) ==
  \E s \in savers, nodeUrl \in StoreUrls, ok \in BOOLEAN :
    /\ addNetworkNode(networkNodes, nodeUrl) # networkNodes
    /\ MutateAndSave(s, "addNetworkNode",
                     [Memory EXCEPT !.networkNodes = addNetworkNode(networkNodes, nodeUrl)],
                     ok)

\* removeNetworkNode with its save
RemoveNodeAndSaveBy(savers) ==
  \E s \in savers, nodeUrl \in StoreUrls, ok \in BOOLEAN :
    /\ nodeUrl \in SeqToSet(networkNodes)
    /\ MutateAndSave(s, "removeNetworkNode",
                     [Memory EXCEPT !.networkNodes =
                        LET other(url) == url # nodeUrl IN SelectSeq(networkNodes, other)],
                     ok)

AdmitAndSave == AdmitAndSaveBy({1})

AddNodeAndSave == AddNodeAndSaveBy({1})

RemoveNodeAndSave == RemoveNodeAndSaveBy({1})

\* The same callers when a save may be in flight already
AdmitAndSaveAgain == AdmitAndSaveBy(Savers)

AddNodeAndSaveAgain == AddNodeAndSaveBy(Savers)

\* db.open of a waiting save returned or threw
SaveOpen ==
  /\ \E s \in Savers, opened \in BOOLEAN, ok \in BOOLEAN :
       /\ db.saves[s].pc = "open"
       /\ IF opened
          THEN /\ db' = PutBy([db EXCEPT !.status = "open"], s, 1, Memory, ok)
               /\ last' = IF PutFault(1, ok) = "" THEN Quiet
                          ELSE Settled(db.saves[s].op, PutFault(1, ok), "await")
          ELSE /\ db' = [db EXCEPT !.saves[s] = NotSaving, !.dirty = TRUE]
               /\ last' = Settled(db.saves[s].op, "open", "await")
  /\ UNCHANGED <<chainVars, networkNodes, pcVars, syncVars, now, uuidCounter, tickers, relay, backoff, sweeps>>

\* The next db.put of a save in flight: it writes what the node holds now
SavePut ==
  /\ \E s \in Savers, ok \in BOOLEAN :
       /\ db.saves[s].pc = "put"
       /\ db' = PutBy(db, s, db.saves[s].key, Memory, ok)
       /\ last' = IF PutFault(db.saves[s].key, ok) = "" THEN Quiet
                  ELSE Settled(db.saves[s].op, PutFault(db.saves[s].key, ok), "await")
  /\ UNCHANGED <<chainVars, networkNodes, pcVars, syncVars, now, uuidCounter, tickers, relay, backoff, sweeps>>

\* The store becomes unavailable or available again
StoreFault ==
  /\ \E status \in {"open", "closed", "opening"} :
       /\ status # db.status
       /\ db' = [db EXCEPT !.status = status]
  /\ last' = Quiet
  /\ UNCHANGED <<chainVars, networkNodes, pcVars, syncVars, now, uuidCounter, tickers, relay, backoff, sweeps>>

\* What db.get yields for a key: the stored value, and for a key that is not
\* in the store a rejection or undefined, as the store library decides
AllKeys == SeqToSet(StoreKeys)

\* loadFromDatabase: the four reads, then the assignments, then the test of
\* the chain; notFoundThrows tells whether db.get rejects for a missing key
loadFromDatabase(store, notFoundThrows) ==
  LET chainData == IF "blockchain" \in store.has
                   THEN store.written["blockchain"].chain ELSE <<>>
      pendingData == IF "pendingTransactions" \in store.has
                     THEN store.written["pendingTransactions"].pendingTransactions
                     ELSE <<>>
      networkData == IF "networkNodes" \in store.has
                     THEN store.written["networkNodes"].networkNodes ELSE <<>>
      configDifficulty == IF "config" \in store.has
                          THEN store.written["config"].difficulty ELSE 0
      loaded == Snapshot(chainData, pendingData, networkData,
                         IF configDifficulty # 0 THEN configDifficulty
                         ELSE InitialDifficulty)
  IN  IF notFoundThrows /\ store.has # AllKeys
      THEN [threw |-> TRUE, memory |-> Snapshot(<<>>, <<>>, <<>>, InitialDifficulty)]
      ELSE [threw |-> chainData = <<>>, memory |-> loaded]

\* initializeBlockchain up to its save: the loaded state, or a new genesis
\* block when the load threw or the first block is not the genesis block
initializeBlockchain(store, notFoundThrows) ==
  LET load == loadFromDatabase(store, notFoundThrows)
      fresh == [load.memory EXCEPT !.chain = ChainG]
  IN  IF load.threw THEN [saves |-> TRUE, memory |-> fresh]
      ELSE IF ~isValidGenesisBlock(load.memory.chain[1])
           THEN [saves |-> TRUE, memory |-> fresh]
           ELSE [saves |-> FALSE, memory |-> load.memory]

\* The node process ends and starts again on the store it left
Startup ==
  /\ db.boots < MaxBoots
  /\ \E notFoundThrows \in BOOLEAN, ok \in BOOLEAN :
       LET started == initializeBlockchain(db, notFoundThrows)
           opened == [db EXCEPT !.status = "open", !.boots = @ + 1,
                                !.saves = [s \in Savers |-> NotSaving]]
       IN  /\ chain' = started.memory.chain
           /\ pendingTransactions' = started.memory.pendingTransactions
           /\ networkNodes' = started.memory.networkNodes
           /\ difficulty' = started.memory.difficulty
           /\ db' = IF started.saves
                    THEN SaveCall(opened, 1, "initializeBlockchain", started.memory, ok)
                    ELSE opened
           /\ last' = Asked("initializeBlockchain",
                            IF started.saves THEN "created" ELSE "loaded",
                            [notFoundThrows |-> notFoundThrows])
  /\ isMining' = FALSE
  /\ minePc' = [t \in MineRuns |-> "idle"]
  /\ httpMinePc' = "idle"
  /\ netSyncPc' = "idle"
  /\ discoverPc' = Harvest("idle", "")
  /\ healthPc' = NoCleanup
  /\ syncInProgress' = FALSE
  /\ lastSyncAttempt' = 0
  /\ syncPc' = [c \in SyncCallers |-> "idle"]
  /\ syncIdx' = [c \in SyncCallers |-> 0]
  /\ peerData' = [c \in SyncCallers |-> <<>>]
  /\ tickers' = NoTimers
  /\ relay' = NoRelay
  /\ backoff' = [k \in Starts |-> NoBackoff]
  /\ sweeps' = [r \in Sweeps |-> NoSweep]
  /\ UNCHANGED <<now, uuidCounter>>

(* ------------------------------- sync --------------------------------- *)
\* Guards without the syncInProgress test: C7 must not survive them
SyncGuardNoFlag(inProgress, lastAttempt, time) ==
  IF time - lastAttempt < syncCooldown THEN "cooldown_active" ELSE "start"

\* Guards without the cooldown test: C8 must not survive them
SyncGuardNoCooldown(inProgress, lastAttempt, time) ==
  IF inProgress THEN "sync_in_progress" ELSE "start"

\* The guards of performFullSync: the reason of a skipped call, or "start"
SyncGuard(inProgress, lastAttempt, time) ==
  IF inProgress THEN "sync_in_progress"
  ELSE IF time - lastAttempt < syncCooldown THEN "cooldown_active"
  ELSE "start"

\* performFullSync up to its first await
SyncCall(c) ==
  /\ syncPc[c] = "idle"
  /\ LET g == SyncGuard(syncInProgress, lastSyncAttempt, now)
     IN IF g = "start"
        THEN /\ syncInProgress' = TRUE
             /\ lastSyncAttempt' = now
             /\ syncPc' = [syncPc EXCEPT ![c] = "import"]
             /\ last' = Outcome("performFullSync", "started", NoResponse)
        ELSE /\ last' = Outcome("performFullSync", g, NoResponse)
             /\ UNCHANGED <<syncInProgress, lastSyncAttempt, syncPc>>
  /\ UNCHANGED <<chainVars, networkNodes, pcVars, syncIdx, peerData, now, uuidCounter, hostVars>>

\* performFullSync after the import: the no_peers return (with the
\* finally), or the start of collectPeerBlockchains
SyncBegin(c) ==
  /\ syncPc[c] = "import"
  /\ IF networkNodes = <<>>
     THEN /\ syncInProgress' = FALSE
          /\ syncPc' = [syncPc EXCEPT ![c] = "idle"]
          /\ last' = Outcome("performFullSync", "no_peers", NoResponse)
          /\ UNCHANGED <<syncIdx, peerData>>
     ELSE /\ syncPc' = [syncPc EXCEPT ![c] = "fetch"]
          /\ syncIdx' = [syncIdx EXCEPT ![c] = 1]
          /\ peerData' = [peerData EXCEPT ![c] = <<>>]
          /\ last' = Quiet
          /\ UNCHANGED syncInProgress
  /\ UNCHANGED <<chainVars, networkNodes, pcVars, lastSyncAttempt, now, uuidCounter, hostVars>>

\* peerInfo built from a reply of GET /blockchain
PeerInfo(response) ==
  Response(response.chain, response.pendingTransactions,
           IF response.difficulty # 0 THEN response.difficulty ELSE 1)

\* One iteration of collectPeerBlockchains: the reply of the peer, or a
\* failed request (NoResponse)
SyncFetchOf(c, responses) ==
  /\ syncPc[c] = "fetch"
  /\ syncIdx[c] <= Len(networkNodes)
  /\ \E response \in responses \cup {NoResponse} :
       peerData' = [peerData EXCEPT ![c] =
                      IF response # NoResponse /\ validateBlockchainStructure(response.chain)
                      THEN Append(@, PeerInfo(response)) ELSE @]
  /\ syncIdx' = [syncIdx EXCEPT ![c] = @ + 1]
  /\ last' = Quiet
  /\ UNCHANGED <<chainVars, networkNodes, pcVars, syncInProgress, lastSyncAttempt,
                 syncPc, now, uuidCounter, hostVars>>

SyncFetch(c) == SyncFetchOf(c, Responses)

\* The same fetch from peers that declare a difficulty of their own choice
SyncFetchDeclared == SyncFetchOf(1, DeclaredResponses)

\* A peer that declares the lowest difficulty
SyncFetchLowest == SyncFetchOf(1, {Response(ChainH2, <<>>, 1)})

\* A sync that never finds the local chain current: C38 must not survive it
LocalIsCurrentNever(remoteLength, localLength) == FALSE

\* A test that lets a chain of equal length through: C4 must not survive it
LocalIsCurrentStrict(remoteLength, localLength) == remoteLength < localLength

\* The test of updateBlockchainIfBetter that keeps the local chain
LocalIsCurrent(remoteLength, localLength) == remoteLength <= localLength

\* updateBlockchainIfBetter on the node state (c, pending, d): the reason
\* returned ("updated" when it returns updated: true, "threw" when
\* chainIsValid raises) and the state it leaves.
updateBlockchainIfBetter(c, pending, d, bestChain) ==
  LET same(reason) == [reason |-> reason, chain |-> c, pending |-> pending, difficulty |-> d]
  IN IF LocalIsCurrent(Len(bestChain.chain), Len(c)) THEN same("local_is_current")
     ELSE LET v == chainIsValid(c, d, bestChain.chain)
          IN IF v = "false" THEN same("invalid_remote_chain")
             ELSE IF v = "throw" THEN same("threw")
             ELSE LET m == mergePendingTransactions(bestChain.chain,
                                                    bestChain.pendingTransactions, pending)
                  IN IF m.threw
                     THEN [reason |-> "update_failed", chain |-> bestChain.chain,
                           pending |-> pending, difficulty |-> d]
                     ELSE [reason |-> "updated", chain |-> bestChain.chain,
                           pending |-> m.value,
                           difficulty |-> IF bestChain.difficulty # 0
                                          THEN bestChain.difficulty ELSE d]

\* performFullSync after collectPeerBlockchains: selectBestBlockchain and
\* updateBlockchainIfBetter up to the await of saveToDatabase; a return
\* that awaits nothing runs the finally at once.
SyncDecide(c) ==
  /\ syncPc[c] = "fetch"
  /\ syncIdx[c] > Len(networkNodes)
  /\ IF peerData[c] = <<>>
     THEN /\ last' = Outcome("performFullSync", "no_peer_data", NoResponse)
          /\ syncInProgress' = FALSE
          /\ syncPc' = [syncPc EXCEPT ![c] = "idle"]
          /\ UNCHANGED chainVars
     ELSE LET bestChain == selectBestBlockchain(peerData[c])
              r == updateBlockchainIfBetter(chain, pendingTransactions, difficulty, bestChain)
          IN /\ chain' = r.chain
             /\ pendingTransactions' = r.pending
             /\ difficulty' = r.difficulty
             /\ last' = Outcome("updateBlockchainIfBetter", r.reason, bestChain)
             /\ IF r.reason = "updated"
                THEN /\ syncPc' = [syncPc EXCEPT ![c] = "saving"]
                     /\ UNCHANGED syncInProgress
                ELSE /\ syncInProgress' = FALSE
                     /\ syncPc' = [syncPc EXCEPT ![c] = "idle"]
  /\ peerData' = [peerData EXCEPT ![c] = <<>>]
  /\ syncIdx' = [syncIdx EXCEPT ![c] = 0]
  /\ UNCHANGED <<networkNodes, pcVars, lastSyncAttempt, now, uuidCounter, hostVars>>

\* performFullSync after updateBlockchainIfBetter has saved: the finally
SyncFinish(c) ==
  /\ syncPc[c] = "saving"
  /\ syncInProgress' = FALSE
  /\ syncPc' = [syncPc EXCEPT ![c] = "idle"]
  /\ last' = Quiet
  /\ UNCHANGED <<chainVars, networkNodes, pcVars, lastSyncAttempt, syncIdx, peerData,
                 now, uuidCounter, hostVars>>

(* ------------------------ POST /api/network/sync ---------------------- *)
\* resolveConflicts: whether chainIsValid raised, and the position of the
\* chain it adopts (0 when it keeps the local chain)
RECURSIVE ResolveFrom(_, _, _, _, _, _)
ResolveFrom(c, d, blockchains, k, maxLength, best) ==
  IF k > Len(blockchains) THEN [threw |-> FALSE, best |-> best]
  ELSE LET v == chainIsValid(c, d, blockchains[k].chain)
       IN IF v = "throw" THEN [threw |-> TRUE, best |-> 0]
          ELSE IF Len(blockchains[k].chain) > maxLength /\ v = "true"
          THEN ResolveFrom(c, d, blockchains, k + 1, Len(blockchains[k].chain), k)
          ELSE ResolveFrom(c, d, blockchains, k + 1, maxLength, best)

resolveConflicts(c, d, blockchains) == ResolveFrom(c, d, blockchains, 1, Len(c), 0)

\* POST /api/network/sync up to the request to the node
NetworkSyncAdd ==
  /\ netSyncPc = "idle"
  /\ \E nodeUrl \in SyncTargets : networkNodes' = addNetworkNode(networkNodes, nodeUrl)
  /\ netSyncPc' = "fetch"
  /\ last' = Quiet
  /\ UNCHANGED <<chainVars, isMining, minePc, httpMinePc, discoverPc, healthPc, syncVars, now, uuidCounter, hostVars>>

\* POST /api/network/sync after the reply: resolveConflicts([response])
NetworkSyncResolve ==
  /\ netSyncPc = "fetch"
  /\ \E response \in Responses \cup {NoResponse} :
       LET r == resolveConflicts(chain, difficulty, <<response>>)
       IN IF response # NoResponse /\ ~r.threw /\ r.best # 0
          THEN /\ chain' = response.chain
               /\ pendingTransactions' = response.pendingTransactions
               /\ last' = Outcome("resolveConflicts", "replaced", response)
          ELSE /\ last' = Outcome("resolveConflicts", "kept", response)
               /\ UNCHANGED <<chain, pendingTransactions>>
  /\ netSyncPc' = "idle"
  /\ UNCHANGED <<difficulty, networkNodes, isMining, minePc, httpMinePc, discoverPc, healthPc, syncVars,
                 now, uuidCounter, hostVars>>

(* --------------------------- specification ---------------------------- *)
\* Every writer of the chain on a node whose only peer is the one added by
\* POST /api/network/sync, with one caller of performFullSync
Next ==
  \/ Tick
  \/ PostTransaction
  \/ SendTransaction
  \/ FaucetRequest
  \/ AutoMineCommit(1)
  \/ AutoMineAdjust(1)
  \/ AutoMineFinish(1)
  \/ HttpMineCommit
  \/ HttpMineAdjust
  \/ ReceiveNewBlock
  \/ SyncCall(1)
  \/ SyncBegin(1)
  \/ SyncFetch(1)
  \/ SyncDecide(1)
  \/ SyncFinish(1)
  \/ NetworkSyncAdd
  \/ NetworkSyncResolve

Spec == Init /\ [][Next]_vars

\* The sync manager with two concurrent callers and two peers
NextSync ==
  \/ TickSync
  \/ PostTransaction
  \/ ReceiveNewBlock
  \/ RegisterNode
  \/ \E c \in SyncCallers : SyncCall(c)
  \/ \E c \in SyncCallers : SyncBegin(c)
  \/ \E c \in SyncCallers : SyncFetch(c)
  \/ \E c \in SyncCallers : SyncDecide(c)
  \/ \E c \in SyncCallers : SyncFinish(c)

SpecSync == Init /\ [][NextSync]_vars

\* The wallet endpoints and the auto-miner of a node without peers, with
\* overlapping timer callbacks
FaucetRequestPay == FaucetRequestOf(PayMaxPending, PayMaxUuid)

SendPayment == SendTransactionOf(PayBodies, PayMaxPending, PayMaxUuid)

BroadcastPayment == BroadcastTransactionOf(PayBodies, PayMaxPending, PayMaxUuid)

NextPay ==
  \/ Tick
  \/ FaucetRequestPay
  \/ SendPayment
  \/ BroadcastPayment
  \/ \E t \in MineRuns : AutoMineCommit(t)
  \/ \E t \in MineRuns : AutoMineAdjust(t)
  \/ \E t \in MineRuns : AutoMineFinish(t)

SpecPay == Init /\ [][NextPay]_vars

\* The auto-miner with overlapping timer callbacks on a node whose mempool
\* is filled by the faucet and by POST /api/network/sync
NextMine ==
  \/ Tick
  \/ FaucetRequest
  \/ NetworkSyncAdd
  \/ NetworkSyncResolve
  \/ \E t \in MineRuns : AutoMineCommit(t)
  \/ \E t \in MineRuns : AutoMineAdjust(t)
  \/ \E t \in MineRuns : AutoMineFinish(t)

SpecMine == Init /\ [][NextMine]_vars

\* The auto-miner of a node that serves the faucet and receives blocks from
\* its peers.  The mining timer keeps firing, every nonce search ends
\* (PowTerminates), and the awaits of autoMine (saveToDatabase, the
\* broadcast) return: the steps of autoMine are weakly fair.
NextLive ==
  \/ Tick
  \/ FaucetRequest
  \/ ReceiveNewBlock
  \/ \E t \in MineRuns : AutoMineCommit(t)
  \/ \E t \in MineRuns : AutoMineAdjust(t)
  \/ \E t \in MineRuns : AutoMineFinish(t)

MinerFairness ==
  /\ WF_vars(\E t \in MineRuns : AutoMineCommit(t))
  /\ \A t \in MineRuns : WF_vars(AutoMineAdjust(t))
  /\ \A t \in MineRuns : WF_vars(AutoMineFinish(t))

SpecLive == Init /\ [][NextLive]_vars /\ MinerFairness

\* Every writer of the peer list that adds to it, and the clock of the
\* discovery timer
NextPeers ==
  \/ Tick
  \/ RegisterNode
  \/ RegisterNodesBulk
  \/ RegisterAndBroadcastNode
  \/ ConnectPeer
  \/ DiscoverCheck
  \/ DiscoverPush

SpecPeers == Init /\ [][NextPeers]_vars

\* The health monitor on a node whose peers register themselves while a
\* cycle is under way
NextHealth ==
  \/ ConnectPeer
  \/ RegisterNode
  \/ HealthStart
  \/ HealthCheck
  \/ HealthFinish

SpecHealth == Init /\ [][NextHealth]_vars

\* The tickers of a node under start, stop and restart requests
NextTickers ==
  \/ InitializeStart
  \/ MiningStart
  \/ MiningStop
  \/ NodeRestart
  \/ RestartFire
  \/ MiningTick
  \/ HealthTick
  \/ InitialDiscoveryFire
  \/ DiscoveryFire
  \/ DiscoveryDone

SpecTickers == Init /\ [][NextTickers]_vars

\* POST /transaction/broadcast on a node with registered peers
NextRelay ==
  \/ RegisterNode
  \/ BroadcastPayment
  \/ PeerAnswers

SpecRelay == Init /\ [][NextRelay]_vars

\* Sync with peers that declare their difficulty
NextDeclared ==
  \/ RegisterNode
  \/ SyncCall(1)
  \/ SyncBegin(1)
  \/ SyncFetchDeclared
  \/ SyncDecide(1)
  \/ SyncFinish(1)

SpecDeclared == Init /\ [][NextDeclared]_vars

(* A node whose mempool is filled by POST /transaction and that syncs *)
NextMerge ==
  \/ PostAnyTransaction
  \/ RegisterNode
  \/ SyncCall(1)
  \/ SyncBegin(1)
  \/ SyncFetch(1)
  \/ SyncDecide(1)
  \/ SyncFinish(1)

SpecMerge == Init /\ [][NextMerge]_vars

(* A node that mines, by timer and on request, a mempool that can hold more
   than one block *)
NextBlock ==
  \/ SendManyTransactions
  \/ AutoMineCommit(1)
  \/ AutoMineAdjust(1)
  \/ AutoMineFinish(1)
  \/ HttpMineCommit
  \/ HttpMineAdjust

SpecBlock == Init /\ [][NextBlock]_vars

(* A node that mines at chosen times and can adopt a peer's difficulty *)
NextAdjust ==
  \/ TickAdjust
  \/ SendOneTransaction
  \/ RegisterNode
  \/ SyncCall(1)
  \/ SyncBegin(1)
  \/ SyncFetchLowest
  \/ SyncDecide(1)
  \/ SyncFinish(1)
  \/ AutoMineCommit(1)
  \/ AutoMineAdjust(1)
  \/ AutoMineFinish(1)
  \/ HttpMineCommit
  \/ HttpMineAdjust

SpecAdjust == Init /\ [][NextAdjust]_vars

(* The scheduled discovery of a node whose peers come and go *)
NextBackoff ==
  \/ RegisterNode
  \/ \E k \in Starts : BackoffStart(k)
  \/ \E k \in Starts : BackoffFire(k)
  \/ \E k \in Starts : BackoffDone(k)

SpecBackoff == Init /\ [][NextBackoff]_vars

(* Overlapping cleanupUnhealthyPeers calls on a node that registers peers *)
NextSweep ==
  \/ RegisterNode
  \/ \E r \in Sweeps : SweepFilter(r)
  \/ \E r \in Sweeps : SweepBegin(r)
  \/ \E r \in Sweeps : SweepCheck(r)
  \/ \E r \in Sweeps : SweepFinish(r)

SpecSweep == Init /\ [][NextSweep]_vars

\* A node whose callers save to a store that may be closed, fail to open or
\* fail to write
NextStore ==
  \/ AdmitAndSave
  \/ AddNodeAndSave
  \/ RemoveNodeAndSave
  \/ SaveOpen
  \/ SavePut
  \/ StoreFault

SpecStore == Init /\ [][NextStore]_vars

\* A node whose handlers call saveToDatabase while saves are in flight
NextSaves ==
  \/ AdmitAndSaveAgain
  \/ AddNodeAndSaveAgain
  \/ ReceiveNewBlock
  \/ SavePut

SpecSaves == Init /\ [][NextSaves]_vars

\* A node that saves, ends and is started again on the store it left
NextBoot ==
  \/ AdmitAndSave
  \/ ReceiveNewBlock
  \/ SavePut
  \/ Startup

SpecBoot == Init /\ [][NextBoot]_vars

(* ------------------------------ properties ---------------------------- *)
TxIds(txs) == {txs[k].transactionId : k \in 1..Len(txs)}

\* C1: for every position i > 0 of the local chain, the block's
\* previousBlockHash is the hash of the block before it, after any mining,
\* inbound append, sync replacement or resolveConflicts.
C1_HashLinked ==
  \A i \in 2..Len(chain) : chain[i].previousBlockHash = chain[i - 1].hash

\* A block mined locally from a transaction created locally, on top of a
\* block that came from a peer
C1_Witness ==
  /\ Len(chain) = 3
  /\ SubSeq(chain, 1, 2) = ChainH2
  /\ chain[3].transactions # <<>>
  /\ chain[3].transactions[1].transactionId = Uuid(1)

\* C2: the genesis block has index 1 and every later block has the index of
\* its predecessor plus one.
C2_IndexIsHeight ==
  /\ chain[1].index = 1
  /\ \A i \in 2..Len(chain) : chain[i].index = chain[i - 1].index + 1

\* C3: every non-genesis block's hash is the hash recomputed from its
\* predecessor's hash, its nonce, its transactions and its index, and has at
\* least difficulty leading zeros.
C3_HashRecomputes ==
  \A i \in 2..Len(chain) :
    /\ RecomputedHash(chain, i) = chain[i].hash
    /\ HasLeadingZeros(chain[i].hash, chain[i].difficulty)

\* A step of updateBlockchainIfBetter or of resolveConflicts
ReplaceStep == last'.op \in {"updateBlockchainIfBetter", "resolveConflicts"}

\* C4: a sync or resolveConflicts replaces the local chain by the candidate
\* if and only if the candidate is strictly longer than the local chain and
\* chainIsValid accepts it; otherwise the chain stays, and a candidate equal
\* to the local chain is reported as not adopted and changes nothing.
C4_AdoptIffLongerAndValid ==
  [][ReplaceStep =>
        LET cand == last'.cand.chain
            replaced == chain' # chain
            better == /\ Len(cand) > Len(chain)
                      /\ chainIsValid(chain, difficulty, cand) = "true"
        IN /\ replaced <=> better
           /\ replaced => chain' = cand
           /\ cand = chain =>
                /\ last'.result \in {"local_is_current", "kept"}
                /\ UNCHANGED <<chain, pendingTransactions, difficulty>>]_vars

\* The chain adopted by a sync is offered again
C4_Witness ==
  /\ last.op = "updateBlockchainIfBetter"
  /\ last.result = "local_is_current"
  /\ last.cand.chain = chain
  /\ Len(chain) > 1

\* The step in which call c of performFullSync selects and compares
DecideStep(c) == syncPc[c] = "fetch" /\ syncPc'[c] # "fetch" /\ peerData[c] # <<>>

\* C5: when a peer served a chain that is strictly longer than the local
\* chain and valid, the sync ends with the longest such chain adopted,
\* whatever the other peers served.
C5_AdoptsLongestValid ==
  [][\A c \in SyncCallers :
       DecideStep(c) =>
         LET good == {i \in 1..Len(peerData[c]) :
                        /\ Len(peerData[c][i].chain) > Len(chain)
                        /\ chainIsValid(chain, difficulty, peerData[c][i].chain) = "true"}
         IN good # {} =>
              \E i \in good :
                /\ chain' = peerData[c][i].chain
                /\ \A j \in good : Len(peerData[c][j].chain) <= Len(chain')]_vars

\* C6: whenever updateBlockchainIfBetter returns updated = false, the chain,
\* the mempool and the difficulty are as they were before the call.
C6_FailedUpdateRollsBack ==
  [][(last'.op = "updateBlockchainIfBetter" /\ last'.result # "updated")
       => UNCHANGED <<chain, pendingTransactions, difficulty>>]_vars

\* A step of performFullSync up to its first await
CallStep ==
  /\ last'.op = "performFullSync"
  /\ last'.result \in {"started", "sync_in_progress", "cooldown_active"}

\* A skipped call contacts no peer and changes nothing
SkipChangesNothing ==
  UNCHANGED <<chain, pendingTransactions, difficulty, networkNodes, syncInProgress,
              lastSyncAttempt, syncPc, syncIdx, peerData>>

InFlight == {c \in SyncCallers : syncPc[c] # "idle"}

\* C7: at most one sync is in flight; a call made while one is in progress
\* returns sync_in_progress and changes nothing; syncInProgress is false
\* again when a run ends, whatever its outcome.
C7_SingleSyncInFlight ==
  [][/\ Cardinality(InFlight') <= 1
     /\ syncInProgress' <=> InFlight' # {}
     /\ (CallStep /\ syncInProgress) =>
          (last'.result = "sync_in_progress" /\ SkipChangesNothing)
     /\ \A c \in SyncCallers :
          (syncPc[c] # "idle" /\ syncPc'[c] = "idle") => ~syncInProgress']_vars

\* A call was made while another one was fetching
C7_Witness ==
  /\ last.op = "performFullSync"
  /\ last.result = "sync_in_progress"
  /\ \E c \in SyncCallers : syncPc[c] = "fetch"

\* C8 as stated: every call made less than syncCooldown after the last
\* started attempt returns cooldown_active.
C8_AlwaysCooldownActive ==
  [][(CallStep /\ now - lastSyncAttempt < syncCooldown)
       => last'.result = "cooldown_active"]_vars

\* C8 amended: two started runs are at least syncCooldown apart, and a call
\* made less than syncCooldown after the last started attempt is skipped
\* (cooldown_active, or sync_in_progress while that run is still in
\* progress), changes nothing and does not move lastSyncAttempt.
C8_CooldownBetweenStarts ==
  [][CallStep =>
       /\ last'.result = "started" =>
            (now - lastSyncAttempt >= syncCooldown /\ lastSyncAttempt' = now)
       /\ now - lastSyncAttempt < syncCooldown =>
            /\ last'.result = IF syncInProgress THEN "sync_in_progress"
                              ELSE "cooldown_active"
            /\ SkipChangesNothing
       /\ last'.result # "started" => lastSyncAttempt' = lastSyncAttempt]_vars

\* A call one millisecond short of the cooldown was skipped
C8_Witness ==
  /\ last.op = "performFullSync"
  /\ last.result = "cooldown_active"
  /\ now - lastSyncAttempt = syncCooldown - 1

\* C9: no transactionId appears twice on the local chain.
C9_NoDuplicateOnChain ==
  LET txs == ChainTxs(chain)
  IN \A i, j \in 1..Len(txs) : i # j => txs[i].transactionId # txs[j].transactionId

\* C10: no pending transaction has the id of a transaction on the chain.
C10_MempoolDisjointFromChain ==
  TxIds(pendingTransactions) \cap TxIds(ChainTxs(chain)) = {}

\* C11: every non-reserved address has a balance of at least zero over the
\* local chain, when transactions enter the mempool through the node's own
\* submission endpoints only; several pending payments of one sender are
\* confirmed only if the balance covers all of them.
C11_BalancesNonNegative ==
  \A a \in ValidAddresses : addressBalance(chain, a) >= 0

\* A step of POST /receive-new-block, and the block it was offered
ReceiveStep == last'.op = "receiveNewBlock"

Offered == last'.cand.chain[1]

\* C12: POST /receive-new-block appends the offered block if and only if its
\* previousBlockHash is the tip's hash, its index is the tip's index plus
\* one, its hash recomputes from its contents and meets the proof-of-work
\* target, and every transaction in it passes admission.
C12_AppendsIffFullyValid ==
  [][ReceiveStep =>
       LET tip == getLastBlock(chain)
           fullyValid ==
             /\ Offered.previousBlockHash = tip.hash
             /\ Offered.index = tip.index + 1
             /\ ChainValidFrom(chain, difficulty, Append(chain, Offered),
                               Len(chain) + 1) = "true"
       IN /\ (chain' = Append(chain, Offered)) <=> fullyValid
          /\ ~fullyValid => chain' = chain]_vars

\* C13: when an inbound block is accepted, exactly the pending transactions
\* whose transactionId appears in the block leave the mempool.
C13_AcceptDropsOnlyIncluded ==
  [][(ReceiveStep /\ chain' # chain) =>
       LET included(tx) == tx.transactionId \in TxIds(Offered.transactions)
           stays(tx) == ~included(tx)
       IN pendingTransactions' = SelectSeq(pendingTransactions, stays)]_vars

\* C14: when the offered block's previousBlockHash differs from the tip's
\* hash or its index is not the tip's index plus one, the chain, the mempool,
\* the difficulty and the peer list stay as they were and the note is
\* 'New block rejected'; no other block gets that note.
C14_RejectChangesNothing ==
  [][ReceiveStep =>
       LET tip == getLastBlock(chain)
           misfit == \/ Offered.previousBlockHash # tip.hash
                     \/ Offered.index # tip.index + 1
       IN /\ misfit <=> last'.result = "New block rejected"
          /\ misfit => UNCHANGED <<chain, pendingTransactions, difficulty, networkNodes>>]_vars

\* A block with the wrong index was rejected by a node that has a pending
\* transaction and a peer
C14_Witness ==
  /\ last.op = "receiveNewBlock"
  /\ last.result = "New block rejected"
  /\ last.cand.chain[1].previousBlockHash = getLastBlock(chain).hash
  /\ pendingTransactions # <<>>
  /\ networkNodes # <<>>

\* The fields of a coinbase transaction
IsCoinbase(tx) ==
  /\ tx.sender = "00"
  /\ tx.recipient = minerAddress
  /\ tx.amount = miningReward
  /\ tx.fee = 0

\* C15: every block appended by autoMine holds the mempool transactions it
\* took and then, as its last transaction, exactly one coinbase transaction
\* (the transactions of autoMine's block data after the reward is pushed),
\* and the miner's balance has grown by miningReward with every block.
C15_BlockEndsWithCoinbase ==
  /\ \A i \in 2..Len(chain) :
       LET txs == chain[i].transactions
       IN /\ Len(txs) >= 2
          /\ IsCoinbase(txs[Len(txs)])
          /\ \A k \in 1..(Len(txs) - 1) : ~IsCoinbase(txs[k])
          /\ \E id \in 0..Uuid(PayMaxUuid + MaxChainLen) :
               txs = RewardedBlockData(SubSeq(chain, 1, i - 1),
                                       SubSeq(txs, 1, Len(txs) - 1), id).transactions
  /\ addressBalance(chain, minerAddress) = miningReward * (Len(chain) - 1)

\* The autoMine invocations between setting and clearing isMining
Mining == {t \in MineRuns : minePc[t] # "idle"}

\* C16: at most one autoMine invocation is between setting and clearing
\* isMining, however many timer callbacks overlap; isMining is set exactly
\* while one is, and it is false after an invocation ends, also when
\* createNewBlock raised.
C16_SingleMinerInFlight ==
  [][/\ Cardinality(Mining') <= 1
     /\ isMining' <=> Mining' # {}
     /\ \A t \in MineRuns :
          (minePc[t] # "idle" /\ minePc'[t] = "idle") => ~isMining'
     /\ (last'.op = "autoMine" /\ last'.result = "error") =>
          (~isMining' /\ Mining' = {})]_vars

\* A run is in flight while the mempool holds work for another timer callback
C16_Witness ==
  /\ isMining
  /\ pendingTransactions # <<>>
  /\ \E t \in MineRuns : minePc[t] = "broadcast"

\* A run ended in autoMine's catch
C16_ErrorRun ==
  /\ last.op = "autoMine"
  /\ last.result = "error"

\* C17: no autoMine run and no GET /mine run searches a nonce or commits a
\* block while the sync manager has a sync in progress; stated for the part
\* of a sync in which performFullSync awaits the reply of a peer.
C17_NoMiningDuringSync ==
  [][last'.op \in {"autoMine", "mine"} =>
       ~(syncInProgress /\ \E c \in SyncCallers : syncPc[c] = "fetch")]_vars

\* C18: whenever the mempool is non-empty, the miner eventually appends a
\* block (a run of autoMine reaches the state after createNewBlock), as long
\* as the chain is below the model's length bound and the nonce search ends.
C18_PendingEventuallyMined ==
  (pendingTransactions # <<>>)
    ~> \/ \E t \in MineRuns : minePc[t] = "saved"
       \/ Len(chain) = MaxChainLen
       \/ ~PowTerminates(difficulty)

\* A step of POST /transaction/send or POST /transaction/broadcast, and
\* whether its request got as far as createNewTransaction
SubmitStep == last'.op \in {"transaction/send", "transaction/broadcast"}

ReachedCreate ==
  \/ last'.op = "transaction/broadcast"
  \/ isValidAddress(last'.req.sender) /\ isValidAddress(last'.req.recipient)

\* C19: createNewTransaction rejects a transaction of a non-reserved sender
\* whose fee is below minTransactionFee or whose balance on the chain is
\* below amount + fee; a rejected submission leaves the mempool as it was; a
\* transaction of a reserved sender that reaches createNewTransaction is
\* accepted with a fee below the minimum, whatever the sender's balance, and
\* enters the mempool with the minimum fee.
C19_AdmissionByFeeAndBalance ==
  [][SubmitStep =>
       LET req == last'.req
           balance == addressBalance(chain, req.sender)
           wellFormed == /\ req.amount > 0
                         /\ req.sender # req.recipient
                         /\ isValidAddress(req.recipient)
       IN /\ (/\ req.sender \notin ReservedSenders
              /\ req.fee < minTransactionFee \/ balance < req.amount + req.fee)
               => last'.result = "rejected"
          /\ last'.result = "rejected" =>
               UNCHANGED <<pendingTransactions, uuidCounter, chain>>
          /\ (req.sender \in ReservedSenders /\ ReachedCreate /\ wellFormed) =>
               /\ req.fee < minTransactionFee
               /\ balance < req.amount + req.fee
               /\ last'.result = "accepted"
               /\ pendingTransactions' =
                    Append(pendingTransactions,
                           Tx(Uuid(uuidCounter + 1), req.sender, req.recipient,
                              req.amount, minTransactionFee))]_vars

\* A payment with the minimum fee was rejected because its sender's balance,
\* which is not zero, is below amount + fee
C19_Witness ==
  /\ last.op = "transaction/send"
  /\ last.result = "rejected"
  /\ last.req.sender = "EKH_A"
  /\ last.req.fee = minTransactionFee
  /\ addressBalance(chain, "EKH_A") > 0

\* A transaction of the reserved sender FAUCET was accepted without a fee
C19_ReservedAccepted ==
  /\ last.op = "transaction/broadcast"
  /\ last.result = "accepted"
  /\ last.req.sender = "FAUCET"

\* C20: the peer list never holds the same URL twice, under any
\* interleaving of peer discovery and the registration endpoints.
C20_NoDuplicatePeers ==
  \A i, j \in 1..Len(networkNodes) : i # j => networkNodes[i] # networkNodes[j]

\* C21: the peer list never holds more than maxPeers entries.
C21_AtMostMaxPeers == Len(networkNodes) <= maxPeers

\* C22: the peer list holds neither the node's own URL nor a loopback URL.
C22_NoSelfNoLoopback ==
  \A k \in 1..Len(networkNodes) :
    networkNodes[k] # currentNodeUrl /\ networkNodes[k] \notin LoopbackUrls

\* The steps of a health-monitor cycle
CycleStarts == healthPc.pc = "idle" /\ last'.op = "cleanupUnhealthyPeers"

CycleEnds == healthPc.pc = "check" /\ healthPc'.pc = "idle"

\* The number of failed health observations of url in the cycle
Failures(url) ==
  Cardinality({k \in 1..Len(healthPc.removedPeers) : healthPc.removedPeers[k] = url})

\* C23: a peer leaves the peer list only after maxUnhealthyPeers consecutive
\* unhealthy observations; a peer that failed fewer checks is still in the
\* list when the cycle ends.
C23_EvictedAfterNFailures ==
  [][CycleEnds =>
       \A url \in SeqToSet(healthPc.removedPeers) :
         Failures(url) < maxUnhealthyPeers => url \in SeqToSet(networkNodes')]_vars

C25_NoTickAfterStop ==
  [][(last'.op = "tick" /\ last' # last) => last'.result \notin tickers.stopped]_vars

SavesCompleted ==
  /\ \A s \in Savers : db.saves[s].pc = "idle"
  /\ ~db.dirty
  /\ db.has = AllKeys

\* C27: once a set of overlapping saves has completed, the four stored
\* sections were all written from one and the same in-memory state.
C27_StoredFromOneState ==
  (SavesCompleted /\ db.overlapped) =>
    \A k \in AllKeys : db.written[k] = db.written["blockchain"]

\* The store holds a valid chain and lacks another section
HoldsChainOnly(store) ==
  /\ "blockchain" \in store.has
  /\ store.has # AllKeys
  /\ store.written["blockchain"].chain # <<>>
  /\ chainIsValid(store.written["blockchain"].chain, InitialDifficulty,
                  store.written["blockchain"].chain) = "true"

\* C28: a start on a store that holds a valid chain and lacks another section
\* makes the stored chain the node's chain and leaves it in the store.
C28_StartupKeepsStoredChain ==
  [][(db'.boots > db.boots /\ HoldsChainOnly(db)) =>
       /\ chain' = db.written["blockchain"].chain
       /\ db'.written["blockchain"].chain = db.written["blockchain"].chain]_vars

\* C29: a failing peer does not halt POST /transaction/broadcast: when the
\* last peer request of a broadcast has settled, the handler has answered
\* its caller.
C29_BroadcastAnswersCaller ==
  [][(relay.pending # {} /\ relay'.pending = {}) =>
       last'.result = "responded"]_vars

\* C30: the node's difficulty is at least 1 in every reachable state.
C30_DifficultyAtLeastOne == difficulty >= 1

\* C31: the verdict of full chain validation depends on the candidate alone:
\* whenever a sync validates a candidate, the node's verdict is the verdict
\* of a node whose chain is the genesis block only.
C31_VerdictFromCandidateOnly ==
  [][(last'.op = "updateBlockchainIfBetter" /\ last'.result # "local_is_current") =>
       chainIsValid(chain, difficulty, last'.cand.chain)
         = chainIsValid(ChainG, difficulty, last'.cand.chain)]_vars

\* The ids of the transactions on chain c
ConfirmedIds(c) == {t.transactionId : t \in SeqToSet(ChainTxs(c))} \ {0}

\* txs without the entries whose id is in ids and without the later entries
\* of an id that occurs before
RECURSIVE FirstOfEachId(_, _)
FirstOfEachId(txs, ids) ==
  IF txs = <<>> THEN <<>>
  ELSE IF Head(txs).transactionId \in ids THEN FirstOfEachId(Tail(txs), ids)
  ELSE <<Head(txs)>>
         \o FirstOfEachId(Tail(txs), ids \cup ({Head(txs).transactionId} \ {0}))

\* C32: after a successful sync replacement the mempool is the adopted
\* peer's pending list followed by the previous local one, without the
\* transactions whose id is on the adopted chain and without later duplicates
\* of an id; every local pending transaction the adopted chain does not
\* confirm is still pending.
C32_MempoolAfterReplacement ==
  [][(last'.op = "updateBlockchainIfBetter" /\ last'.result = "updated") =>
       /\ pendingTransactions'
            = FirstOfEachId(last'.cand.pendingTransactions \o pendingTransactions,
                            ConfirmedIds(chain'))
       /\ \A k \in 1..Len(pendingTransactions) :
            pendingTransactions[k].transactionId \notin ConfirmedIds(chain')
              => pendingTransactions[k] \in SeqToSet(pendingTransactions')]_vars

\* C33: a block mined by this node holds the first min(n, maxTransactionsPerBlock)
\* mempool transactions in their order, n being the size of the mempool when
\* the run started; its hash is the hash of the nonce search over those
\* transactions; the commit leaves the other transactions in their order.
C33_MinedBlockTakesFirstTransactions ==
  [][last'.result = "mined" =>
       LET n == Len(pendingTransactions)
           k == Min(n, maxTransactionsPerBlock)
           b == chain'[Len(chain')]
       IN /\ Len(chain') = Len(chain) + 1
          /\ b.transactions = SubSeq(pendingTransactions, 1, k)
          /\ b.hash = hashBlock(b.previousBlockHash,
                                [transactions |-> b.transactions,
                                 index |-> getLastBlock(chain).index + 1],
                                b.nonce)
          /\ pendingTransactions' = SubSeq(pendingTransactions, k + 1, n)]_vars

\* A commit has just taken a full block from a larger mempool
C33_Witness ==
  /\ last.result = "mined"
  /\ Len(chain[Len(chain)].transactions) = maxTransactionsPerBlock
  /\ pendingTransactions # <<>>

\* A step in which autoMine or GET /mine calls adjustDifficulty
AdjustRuns ==
  \/ httpMinePc = "saved" /\ httpMinePc' = "idle"
  \/ \E t \in MineRuns : minePc[t] = "saved" /\ minePc'[t] = "broadcast"

\* The interval between the timestamps of the last two blocks of c
LastInterval(c) == c[Len(c)].timestamp - c[Len(c) - 1].timestamp

\* No mining run is between its commit and its call of adjustDifficulty
AdjustDone == httpMinePc = "idle" /\ \A t \in MineRuns : minePc[t] # "saved"

C35_ThresholdsInclusive ==
  [][(AdjustRuns /\ Len(chain) >= 2) =>
       /\ 2 * LastInterval(chain) <= targetBlockTime => difficulty' = difficulty + 1
       /\ (LastInterval(chain) >= 2 * targetBlockTime /\ difficulty > 1)
            => difficulty' = difficulty - 1]_vars

\* C35, amended: an interval of exactly targetBlockTime/2 or exactly
\* 2*targetBlockTime leaves the difficulty as it is.
C35_ThresholdsExclusive ==
  [][(AdjustRuns /\ Len(chain) >= 2
        /\ (2 * LastInterval(chain) = targetBlockTime
              \/ LastInterval(chain) = 2 * targetBlockTime)) =>
       difficulty' = difficulty]_vars

\* adjustDifficulty has run on blocks exactly targetBlockTime/2 apart and on
\* blocks exactly 2*targetBlockTime apart, and the difficulty is the initial
\* one
C35_Witness ==
  /\ Len(chain) = 3
  /\ 2 * (chain[2].timestamp - chain[1].timestamp) = targetBlockTime
  /\ LastInterval(chain) = 2 * targetBlockTime
  /\ chain[2].difficulty = InitialDifficulty
  /\ chain[3].difficulty = InitialDifficulty
  /\ difficulty = InitialDifficulty
  /\ AdjustDone

\* The delay d is min(baseInterval * 1.5^failureCount, 5 minutes)
IsBackoffDelay(d, failureCount) ==
  LET uncappedNum == baseInterval * Pow(3, failureCount)
      uncappedDen == Pow(2, failureCount)
  IN /\ d.num <= maxDiscoveryDelay * d.den
     /\ d.num * uncappedDen <= uncappedNum * d.den
     /\ \/ d.num * uncappedDen = uncappedNum * d.den
        \/ d.num = maxDiscoveryDelay * d.den

\* C36: when a scheduled discovery run ends, failureCount has grown by one
\* if the run found no peers and is 0 otherwise, exactly one next run is
\* scheduled, and its delay is min(baseInterval * 1.5^failureCount, 5 min),
\* which is never more than 5 minutes.
C36_BackoffSchedule ==
  [][\A k \in Starts :
       (backoff[k].running /\ ~backoff'[k].running) =>
          LET found == last'.req.found
          IN /\ backoff'[k].failureCount =
                  (IF found.discovered = 0 /\ found.total = 0
                   THEN backoff[k].failureCount + 1 ELSE 0)
             /\ IsBackoffDelay(backoff'[k].delay, backoff'[k].failureCount)
             /\ backoff[k].timers = 0
             /\ backoff'[k].timers = 1]_vars

\* A run has ended after five failed runs and the next one is scheduled at
\* the cap
C36_Witness ==
  /\ last.op = "scheduleNextDiscovery"
  /\ \E k \in Starts :
       /\ last.req.start = k
       /\ backoff[k].failureCount = 5
       /\ backoff[k].delay = Millis(maxDiscoveryDelay, 1)
       /\ backoff[k].timers = 1

\* C37: a block mined by autoMine or GET /mine is appended to the chain as it
\* is at that instant, and its previousBlockHash is the hash of the block that
\* was last before the append.
C37_MinedOnCurrentTip ==
  [][last'.result = "mined" =>
       /\ Len(chain') = Len(chain) + 1
       /\ SubSeq(chain', 1, Len(chain)) = chain
       /\ chain'[Len(chain')].previousBlockHash = chain[Len(chain)].hash]_vars

\* A block has just been mined on top of a block that a peer sent
C37_Witness ==
  /\ last.result = "mined"
  /\ Len(chain) = 3
  /\ chain[2] = ChainH2[2]
  /\ chain[3].previousBlockHash = chain[2].hash

\* C38: no step makes the chain shorter.
C38_LengthNeverDecreases == [][Len(chain') >= Len(chain)]_vars

\* A sync has just kept the local chain because the chain it fetched is
\* shorter than the local chain has become
C38_Witness ==
  /\ last.op = "updateBlockchainIfBetter"
  /\ last.result = "local_is_current"
  /\ Len(last.cand.chain) < Len(chain)

\* C39: when a cleanupUnhealthyPeers call ends, every peer that was listed
\* and did not fail a health check of that call is still listed; so a peer
\* another handler added while the call awaited its checks is kept.
C39_CleanupRemovesOnlyFailedPeers ==
  [][\A r \in Sweeps :
       (sweeps[r].pc = "check" /\ sweeps'[r].pc = "idle") =>
          \A nodeUrl \in SeqToSet(networkNodes) :
            nodeUrl \notin SeqToSet(sweeps[r].removedPeers)
              => nodeUrl \in SeqToSet(networkNodes')]_vars

\* C40: when a sync or resolveConflicts replaces the local chain, every
\* transaction of the replaced chain that is not on the adopted chain is in
\* the mempool afterwards.
C40_ReplacedTransactionsReturn ==
  [][(ReplaceStep /\ last'.result \in {"updated", "replaced"}) =>
       \A t \in SeqToSet(ChainTxs(chain)) :
         t.transactionId \notin ConfirmedIds(chain')
           => t \in SeqToSet(pendingTransactions')]_vars

====
